---- MODULE Spec2Model ----
(***************************************************************************)
(* Agent Mode (AgentMode.tsx): the goal router of the assistant UI.        *)
(*                                                                         *)
(* A text is a sequence of one-character strings, so that the regular      *)
(* expressions of the source (split, test, includes, replace, trim,        *)
(* toLowerCase) are computed character by character.                       *)
(***************************************************************************)
EXTENDS Integers, Sequences, FiniteSets, TLC

VARIABLES
    goal,             \* useState goal (a text)
    selectedSpace,    \* useState selectedSpace ("" = none)
    selectedPages,    \* useState selectedPages (sequence of page titles)
    pageTypes,        \* useState pageTypes (sequence of [title, content_type])
    isPlanning,       \* useState isPlanning
    error,            \* useState error
    planSteps,        \* useState planSteps (sequence of step statuses)
    outputTabs,       \* useState outputTabs
    history,          \* useState history (newest first)
    progressPercent,  \* useState progressPercent
    currentHistoryId, \* useState currentHistoryId (0 = null)
    showHistory,      \* useState showHistory
    pc,               \* where handleGoalSubmit is suspended ("idle" when not running)
    runGoal,          \* goal captured by the running handler's closure
    runSpace,         \* selectedSpace captured by the running handler's closure
    runPages,         \* selectedPages captured by the running handler's closure
    instructions,     \* local instructions
    instructionTools, \* local instructionTools
    pageInstructions, \* local pageInstructions
    pageIdx,          \* position of the dispatch loop in pageInstructions
    actionIdx,        \* position of the relatedActions loop
    pending,          \* collaborator calls of the running handler not yet settled
    orphaned,         \* calls of a rejected Promise.all still in flight
    calls,            \* every collaborator call issued by the current run, in order
    pageResults,      \* local pageResults (as a sequence, in insertion order)
    toolsTriggered,   \* local toolsTriggered
    whyUsed,          \* local whyUsed
    howDerived,       \* local howDerived
    impactAnalyzerResult, \* local impactAnalyzerResult (FALSE = null)
    testStrategyResult,   \* local testStrategyResult (FALSE = null)
    runFailed,        \* the catch block of the last run was entered
    runs,             \* number of valid submissions so far
    spaces,           \* useState spaces (sequence of space keys)
    pages,            \* useState pages (the page list loaded last)
    selectAllPages,   \* useState selectAllPages
    loads,            \* requests of the effects still in flight, oldest first
    isListening,      \* VoiceRecorder: useState isListening
    transcript,       \* VoiceRecorder: useState transcript
    pendingTranscript, \* VoiceRecorder: useState pendingTranscript (<<>> = null, <<t>> = t)
    speechError,      \* VoiceRecorder: useState speechError
    recognition,      \* VoiceRecorder: the SpeechRecognition object behind recognitionRef
    confirmed         \* VoiceRecorder: the transcripts handleConfirm has passed to onConfirm

selectVars == <<spaces, pages, selectAllPages, loads>>
voiceVars == <<isListening, transcript, pendingTranscript, speechError, recognition,
               confirmed>>
uiVars == <<goal, selectedSpace, selectedPages, pageTypes, isPlanning, error,
            planSteps, outputTabs, history, progressPercent, currentHistoryId,
            showHistory, selectVars, voiceVars>>
runVars == <<pc, runGoal, runSpace, runPages, instructions, instructionTools,
             pageInstructions,
             pageIdx, actionIdx, pending, orphaned, calls, pageResults,
             toolsTriggered, whyUsed, howDerived, impactAnalyzerResult,
             testStrategyResult, runFailed, runs>>
vars == <<uiVars, runVars>>

----------------------------------------------------------------------------
(* Characters and the string primitives of the source.                     *)

UpperChars == <<"A","B","C","D","E","F","G","H","I","J","K","L","M",
                "N","O","P","Q","R","S","T","U","V","W","X","Y","Z">>
LowerChars == <<"a","b","c","d","e","f","g","h","i","j","k","l","m",
                "n","o","p","q","r","s","t","u","v","w","x","y","z">>
Range(f) == {f[i] : i \in DOMAIN f}

DigitChars == {"0","1","2","3","4","5","6","7","8","9"}

UpperSet == Range(UpperChars)

\* String.prototype.toLowerCase on one character
LowerChar(c) ==
    IF c \in UpperSet
    THEN LowerChars[CHOOSE k \in 1..26 : UpperChars[k] = c]
    ELSE c

\* String.prototype.toLowerCase (\o <<>> keeps the result an explicit sequence)
toLowerCase(s) == [i \in 1..Len(s) |-> LowerChar(s[i])] \o <<>>

WordChars == Range(UpperChars) \cup Range(LowerChars) \cup DigitChars \cup {"_"}

\* \w of a regular expression
IsWordChar(c) == c \in WordChars

\* \s of a regular expression, and the white space trim() removes
IsSpace(c) == c \in {" ", "\t", "\n", "\r"}

\* . of a regular expression (no line terminator)
IsDot(c) == c \notin {"\n", "\r"}

\* \b before position i of s (between s[i-1] and s[i])
WordBoundary(s, i) ==
    LET before == i > 1 /\ i - 1 <= Len(s) /\ IsWordChar(s[i - 1])
        after  == i >= 1 /\ i <= Len(s) /\ IsWordChar(s[i])
    IN  before # after

\* the literal lit stands in s at position i
LitAt(s, i, lit) ==
    /\ i >= 1
    /\ i + Len(lit) - 1 <= Len(s)
    /\ \A k \in 1..Len(lit) : s[i + k - 1] = lit[k]

\* the literal lit stands in s at position i, letters compared as /i does
LitAtI(s, i, lit) ==
    /\ i >= 1
    /\ i + Len(lit) - 1 <= Len(s)
    /\ \A k \in 1..Len(lit) : LowerChar(s[i + k - 1]) = lit[k]

\* String.prototype.includes, and RegExp.test of a literal
Includes(s, lit) == \E i \in 1..(Len(s) + 1) : LitAt(s, i, lit)

\* RegExp.test of /lit/i
IncludesI(s, lit) == \E i \in 1..(Len(s) + 1) : LitAtI(s, i, lit)

\* RegExp.test of /a.*b/
IncludesThen(s, a, b) ==
    \E i \in 1..Len(s) : \E j \in 1..Len(s) :
        /\ LitAt(s, i, a)
        /\ j >= i + Len(a)
        /\ LitAt(s, j, b)
        /\ \A k \in (i + Len(a))..(j - 1) : IsDot(s[k])

\* some literal of the set lits stands in s
IncludesAny(s, lits) == \E lit \in lits : Includes(s, lit)

\* some literal of the set lits stands in s, compared as /i does
IncludesAnyI(s, lits) == \E lit \in lits : IncludesI(s, lit)

\* String.prototype.trim
RECURSIVE TrimLeft(_)
TrimLeft(s) ==
    IF Len(s) > 0 /\ IsSpace(s[1]) THEN TrimLeft(Tail(s)) ELSE s

RECURSIVE TrimRight(_)
TrimRight(s) ==
    IF Len(s) > 0 /\ IsSpace(s[Len(s)])
    THEN TrimRight(SubSeq(s, 1, Len(s) - 1))
    ELSE s

trim(s) == TrimRight(TrimLeft(s))

\* String.prototype.replace(/\s+/g, r): every maximal run of white space becomes r
RECURSIVE ReplaceSpaces(_, _)
ReplaceSpaces(s, r) ==
    IF Len(s) = 0 THEN <<>>
    ELSE IF IsSpace(s[1])
         THEN r \o ReplaceSpaces(TrimLeft(s), r)
         ELSE <<s[1]>> \o ReplaceSpaces(Tail(s), r)

----------------------------------------------------------------------------
(* splitInstructions                                                       *)

\* length of the match of /\band\b|\bthen\b|\n|\r|\r\n|\.|;|,|\|\||\|\s/i
\* at position i of s, alternatives tried in order; 0 = no match
SeparatorAt(s, i) ==
    IF LitAtI(s, i, <<"a","n","d">>) /\ WordBoundary(s, i) /\ WordBoundary(s, i + 3)
        THEN 3
    ELSE IF LitAtI(s, i, <<"t","h","e","n">>) /\ WordBoundary(s, i) /\ WordBoundary(s, i + 4)
        THEN 4
    ELSE IF LitAt(s, i, <<"\n">>) THEN 1
    ELSE IF LitAt(s, i, <<"\r">>) THEN 1
    ELSE IF LitAt(s, i, <<"\r", "\n">>) THEN 2
    ELSE IF LitAt(s, i, <<".">>) THEN 1
    ELSE IF LitAt(s, i, <<";">>) THEN 1
    ELSE IF LitAt(s, i, <<",">>) THEN 1
    ELSE IF LitAt(s, i, <<"|", "|">>) THEN 2
    ELSE IF LitAt(s, i, <<"|">>) /\ i + 1 <= Len(s) /\ IsSpace(s[i + 1]) THEN 2
    ELSE 0

\* String.prototype.split(separator): p = start of the current fragment,
\* q = position where the next match is tried
RECURSIVE SplitFrom(_, _, _, _)
SplitFrom(s, p, q, acc) ==
    IF q > Len(s) THEN Append(acc, SubSeq(s, p, Len(s)))
    ELSE LET n == SeparatorAt(s, q)
         IN  IF n > 0
             THEN SplitFrom(s, q + n, q + n, Append(acc, SubSeq(s, p, q - 1)))
             ELSE SplitFrom(s, p, q + 1, acc)

MinInstructionLen == 3

\* a plausible slip: only the empty fragments are filtered out
KeepInstruction_NonEmptyOnly(instr) == Len(instr) > 0

\* a plausible slip: the length threshold off by one
KeepInstruction_OffByOne(instr) == Len(instr) > 0 /\ Len(instr) > MinInstructionLen + 1

KeepInstruction(instr) == Len(instr) > 0 /\ Len(instr) > MinInstructionLen

\* Array.prototype.filter with the predicate of splitInstructions
RECURSIVE FilterInstructions(_)
FilterInstructions(seq) ==
    IF Len(seq) = 0 THEN <<>>
    ELSE (IF KeepInstruction(seq[1]) THEN <<seq[1]>> ELSE <<>>)
         \o FilterInstructions(Tail(seq))

\* a plausible slip: the fragments are filtered without trim()
splitInstructions_NoTrim(input) ==
    FilterInstructions(SplitFrom(input, 1, 1, <<>>))

splitInstructions(input) ==
    LET parts   == SplitFrom(input, 1, 1, <<>>)
        trimmed == [i \in 1..Len(parts) |-> trim(parts[i])] \o <<>>
        kept    == FilterInstructions(trimmed)
    IN  IF Len(kept) = 1 THEN kept
        ELSE \* the refinement loop pushes every instruction in both branches
             [i \in 1..Len(kept) |-> kept[i]] \o <<>>

----------------------------------------------------------------------------
(* The keyword patterns of handleGoalSubmit. The first nine are tested on  *)
(* the lowercased instruction, the last two on the instruction with /i.    *)

\* /video|summarize.*video|transcribe|video.*summarize/
VideoPattern(s) ==
    \/ IncludesAny(s, {<<"v","i","d","e","o">>,
                       <<"t","r","a","n","s","c","r","i","b","e">>})
    \/ IncludesThen(s, <<"s","u","m","m","a","r","i","z","e">>, <<"v","i","d","e","o">>)
    \/ IncludesThen(s, <<"v","i","d","e","o">>, <<"s","u","m","m","a","r","i","z","e">>)

\* /image|chart|diagram|visual|image.*summarize|summarize.*image|analyze.*image|image.*analyze/
ImagePattern(s) ==
    \/ IncludesAny(s, {<<"i","m","a","g","e">>,
                       <<"c","h","a","r","t">>,
                       <<"d","i","a","g","r","a","m">>,
                       <<"v","i","s","u","a","l">>})
    \/ IncludesThen(s, <<"i","m","a","g","e">>, <<"s","u","m","m","a","r","i","z","e">>)
    \/ IncludesThen(s, <<"s","u","m","m","a","r","i","z","e">>, <<"i","m","a","g","e">>)
    \/ IncludesThen(s, <<"a","n","a","l","y","z","e">>, <<"i","m","a","g","e">>)
    \/ IncludesThen(s, <<"i","m","a","g","e">>, <<"a","n","a","l","y","z","e">>)

\* /convert.*language|language.*convert|debug|refactor|fix|bug|error|optimize|performance|
\*  documentation|docs|comment|dead code|unused|logging|log|code.*convert|convert.*code/
CodePattern(s) ==
    \/ IncludesAny(s, {<<"d","e","b","u","g">>,
                       <<"r","e","f","a","c","t","o","r">>,
                       <<"f","i","x">>,
                       <<"b","u","g">>,
                       <<"e","r","r","o","r">>,
                       <<"o","p","t","i","m","i","z","e">>,
                       <<"p","e","r","f","o","r","m","a","n","c","e">>,
                       <<"d","o","c","u","m","e","n","t","a","t","i","o","n">>,
                       <<"d","o","c","s">>,
                       <<"c","o","m","m","e","n","t">>,
                       <<"d","e","a","d"," ","c","o","d","e">>,
                       <<"u","n","u","s","e","d">>,
                       <<"l","o","g","g","i","n","g">>,
                       <<"l","o","g">>})
    \/ IncludesThen(s, <<"c","o","n","v","e","r","t">>, <<"l","a","n","g","u","a","g","e">>)
    \/ IncludesThen(s, <<"l","a","n","g","u","a","g","e">>, <<"c","o","n","v","e","r","t">>)
    \/ IncludesThen(s, <<"c","o","d","e">>, <<"c","o","n","v","e","r","t">>)
    \/ IncludesThen(s, <<"c","o","n","v","e","r","t">>, <<"c","o","d","e">>)

\* /text|summarize.*text|text.*summarize|summarize.*page|page.*summarize|summarize/
TextPattern(s) ==
    \/ IncludesAny(s, {<<"t","e","x","t">>,
                       <<"s","u","m","m","a","r","i","z","e">>})
    \/ IncludesThen(s, <<"s","u","m","m","a","r","i","z","e">>, <<"t","e","x","t">>)
    \/ IncludesThen(s, <<"t","e","x","t">>, <<"s","u","m","m","a","r","i","z","e">>)
    \/ IncludesThen(s, <<"s","u","m","m","a","r","i","z","e">>, <<"p","a","g","e">>)
    \/ IncludesThen(s, <<"p","a","g","e">>, <<"s","u","m","m","a","r","i","z","e">>)

\* /impact|change|difference|diff/
ImpactPattern(s) ==
    \/ IncludesAny(s, {<<"i","m","p","a","c","t">>,
                       <<"c","h","a","n","g","e">>,
                       <<"d","i","f","f","e","r","e","n","c","e">>,
                       <<"d","i","f","f">>})

\* /test|qa|test case|unit test/
TestPattern(s) ==
    \/ IncludesAny(s, {<<"t","e","s","t">>,
                       <<"q","a">>,
                       <<"t","e","s","t"," ","c","a","s","e">>,
                       <<"u","n","i","t"," ","t","e","s","t">>})

\* tier 2 override: /image|chart|diagram|visual/
ImageKeywords(s) ==
    \/ IncludesAny(s, {<<"i","m","a","g","e">>,
                       <<"c","h","a","r","t">>,
                       <<"d","i","a","g","r","a","m">>,
                       <<"v","i","s","u","a","l">>})

\* tier 2 override: /convert|debug|refactor|fix|bug|error|optimize|performance|documentation|
\*  docs|comment|dead code|unused|logging|log|code/
CodeKeywords(s) ==
    \/ IncludesAny(s, {<<"c","o","n","v","e","r","t">>,
                       <<"d","e","b","u","g">>,
                       <<"r","e","f","a","c","t","o","r">>,
                       <<"f","i","x">>,
                       <<"b","u","g">>,
                       <<"e","r","r","o","r">>,
                       <<"o","p","t","i","m","i","z","e">>,
                       <<"p","e","r","f","o","r","m","a","n","c","e">>,
                       <<"d","o","c","u","m","e","n","t","a","t","i","o","n">>,
                       <<"d","o","c","s">>,
                       <<"c","o","m","m","e","n","t">>,
                       <<"d","e","a","d"," ","c","o","d","e">>,
                       <<"u","n","u","s","e","d">>,
                       <<"l","o","g","g","i","n","g">>,
                       <<"l","o","g">>,
                       <<"c","o","d","e">>})

\* tier 2 override: /video|summarize.*video|transcribe/
VideoKeywords(s) ==
    \/ IncludesAny(s, {<<"v","i","d","e","o">>,
                       <<"t","r","a","n","s","c","r","i","b","e">>})
    \/ IncludesThen(s, <<"s","u","m","m","a","r","i","z","e">>, <<"v","i","d","e","o">>)

\* hasImpactInstruction: /impact|compare|difference|diff/i
ImpactInstructionPattern(s) ==
    \/ IncludesAnyI(s, {<<"i","m","p","a","c","t">>,
                        <<"c","o","m","p","a","r","e">>,
                        <<"d","i","f","f","e","r","e","n","c","e">>,
                        <<"d","i","f","f">>})

\* hasTestInstruction: /test|qa|test case|unit test/i
TestInstructionPattern(s) ==
    \/ IncludesAnyI(s, {<<"t","e","s","t">>,
                        <<"q","a">>,
                        <<"t","e","s","t"," ","c","a","s","e">>,
                        <<"u","n","i","t"," ","t","e","s","t">>})

----------------------------------------------------------------------------
(* Tool inference (the loop over instructions)                             *)

\* a plausible slip: the test for text instructions placed before the others
InferTools_TextFirst(instruction) ==
    LET lowerInstruction == toLowerCase(instruction)
        tools ==
            (IF TextPattern(lowerInstruction) THEN <<"ai_powered_search">> ELSE <<>>)
         \o (IF VideoPattern(lowerInstruction) THEN <<"video_summarizer">> ELSE <<>>)
         \o (IF ImagePattern(lowerInstruction) THEN <<"image_insights">> ELSE <<>>)
         \o (IF CodePattern(lowerInstruction) THEN <<"code_assistant">> ELSE <<>>)
         \o (IF ImpactPattern(lowerInstruction) THEN <<"impact_analyzer">> ELSE <<>>)
         \o (IF TestPattern(lowerInstruction) THEN <<"test_support">> ELSE <<>>)
    IN  IF Len(tools) = 0 THEN <<"ai_powered_search">> ELSE tools

\* a plausible slip: the default for an instruction without any match is missing
InferTools_NoDefault(instruction) ==
    LET lowerInstruction == toLowerCase(instruction)
    IN     (IF VideoPattern(lowerInstruction) THEN <<"video_summarizer">> ELSE <<>>)
        \o (IF ImagePattern(lowerInstruction) THEN <<"image_insights">> ELSE <<>>)
        \o (IF CodePattern(lowerInstruction) THEN <<"code_assistant">> ELSE <<>>)
        \o (IF TextPattern(lowerInstruction) THEN <<"ai_powered_search">> ELSE <<>>)
        \o (IF ImpactPattern(lowerInstruction) THEN <<"impact_analyzer">> ELSE <<>>)
        \o (IF TestPattern(lowerInstruction) THEN <<"test_support">> ELSE <<>>)

\* a plausible slip: the tests chained with else, so that only the first match counts
InferTools_FirstMatchOnly(instruction) ==
    LET lowerInstruction == toLowerCase(instruction)
    IN  IF VideoPattern(lowerInstruction) THEN <<"video_summarizer">>
        ELSE IF ImagePattern(lowerInstruction) THEN <<"image_insights">>
        ELSE IF CodePattern(lowerInstruction) THEN <<"code_assistant">>
        ELSE IF TextPattern(lowerInstruction) THEN <<"ai_powered_search">>
        ELSE IF ImpactPattern(lowerInstruction) THEN <<"impact_analyzer">>
        ELSE IF TestPattern(lowerInstruction) THEN <<"test_support">>
        ELSE <<"ai_powered_search">>

\* the tools pushed for one instruction, in the order of the tests
InferTools(instruction) ==
    LET lowerInstruction == toLowerCase(instruction)
        tools ==
            (IF VideoPattern(lowerInstruction) THEN <<"video_summarizer">> ELSE <<>>)
         \o (IF ImagePattern(lowerInstruction) THEN <<"image_insights">> ELSE <<>>)
         \o (IF CodePattern(lowerInstruction) THEN <<"code_assistant">> ELSE <<>>)
         \o (IF TextPattern(lowerInstruction) THEN <<"ai_powered_search">> ELSE <<>>)
         \o (IF ImpactPattern(lowerInstruction) THEN <<"impact_analyzer">> ELSE <<>>)
         \o (IF TestPattern(lowerInstruction) THEN <<"test_support">> ELSE <<>>)
    IN  IF Len(tools) = 0 THEN <<"ai_powered_search">> ELSE tools

\* local instructionTools
InstructionTools(instrs) ==
    [i \in 1..Len(instrs) |-> [instruction |-> instrs[i], tools |-> InferTools(instrs[i])]]
    \o <<>>

----------------------------------------------------------------------------
(* Page-to-instruction matching (the loop over selectedPages)              *)

InSeq(x, seq) == \E i \in 1..Len(seq) : seq[i] = x

\* a plausible slip: the default || 'text' is missing
ContentTypeOf_NoDefault(page, types) ==
    IF \E k \in 1..Len(types) : types[k].title = page
    THEN types[CHOOSE k \in 1..Len(types) :
                 /\ types[k].title = page
                 /\ \A j \in 1..(k - 1) : types[j].title # page].content_type
    ELSE "undefined"

\* pageContentTypes.get(page): the type of the first entry of pageTypes with
\* this title, 'text' when there is none
ContentTypeOf(page, types) ==
    IF \E k \in 1..Len(types) : types[k].title = page
    THEN types[CHOOSE k \in 1..Len(types) :
                 /\ types[k].title = page
                 /\ \A j \in 1..(k - 1) : types[j].title # page].content_type
    ELSE "text"

\* the instruction mentions the page by its title
MentionsPage(instruction, page) ==
    LET lowerInstruction == toLowerCase(instruction)
        lowerPageName    == toLowerCase(page)
    IN  \/ Includes(lowerInstruction, lowerPageName)
        \/ Includes(lowerInstruction, ReplaceSpaces(lowerPageName, <<"_">>))
        \/ Includes(lowerInstruction, ReplaceSpaces(lowerPageName, <<"-">>))

\* a plausible slip: the page type is ignored and the first inferred tool taken
BestTool_FirstInferred(pageType, tools) ==
    IF Len(tools) > 0 THEN tools[1] ELSE "ai_powered_search"

\* the if/else chain that picks bestTool in tiers 1 and 2
BestTool(pageType, tools) ==
    IF pageType = "video" /\ InSeq("video_summarizer", tools) THEN "video_summarizer"
    ELSE IF pageType = "image" /\ InSeq("image_insights", tools) THEN "image_insights"
    ELSE IF pageType = "code" /\ InSeq("code_assistant", tools) THEN "code_assistant"
    ELSE IF pageType = "text" /\ InSeq("ai_powered_search", tools) THEN "ai_powered_search"
    ELSE IF Len(tools) > 0 THEN tools[1]
    ELSE "ai_powered_search"

\* a plausible slip: the additional keyword matching is left out
KeywordOverride_None(pageType, instruction, bestTool) == bestTool

\* "Additional keyword matching for better accuracy" of tier 2
KeywordOverride(pageType, instruction, bestTool) ==
    LET lowerInstruction == toLowerCase(instruction)
    IN  IF pageType = "image" /\ ImageKeywords(lowerInstruction) THEN "image_insights"
        ELSE IF pageType = "code" /\ CodeKeywords(lowerInstruction) THEN "code_assistant"
        ELSE IF pageType = "video" /\ VideoKeywords(lowerInstruction) THEN "video_summarizer"
        ELSE bestTool

\* index of the first element of 1..n that satisfies the set of hits, 0 if none
FirstOf(hits) == IF hits = {} THEN 0 ELSE CHOOSE i \in hits : \A j \in hits : i <= j

\* index of the last element of the set of hits, 0 if none
LastOf(hits) == IF hits = {} THEN 0 ELSE CHOOSE i \in hits : \A j \in hits : i >= j

\* a plausible slip: the loop of tier 1 has no break, the last mention wins
Tier1Index_Last(page, instrTools) ==
    LastOf({i \in 1..Len(instrTools) : MentionsPage(instrTools[i].instruction, page)})

\* tier 1: the first instruction that mentions the page, used or not
Tier1Index(page, instrTools) ==
    FirstOf({i \in 1..Len(instrTools) : MentionsPage(instrTools[i].instruction, page)})

\* tiers 2 and 3: the first instruction that is not in usedInstructions
FirstUnusedIndex(instrTools, usedInstructions) ==
    FirstOf({i \in 1..Len(instrTools) : instrTools[i].instruction \notin usedInstructions})

\* a plausible slip: tier 2 accepts an instruction only for a matching content
\* type, and none matches
Tier2Index_NoMatch(instrTools, usedInstructions) == 0

\* a plausible slip: tier 2 forgets to skip the used instructions
Tier2Index_IgnoresUsed(instrTools, usedInstructions) ==
    IF Len(instrTools) > 0 THEN 1 ELSE 0

Tier2Index(instrTools, usedInstructions) == FirstUnusedIndex(instrTools, usedInstructions)

Tier3Index(instrTools, usedInstructions) == FirstUnusedIndex(instrTools, usedInstructions)

DefaultInstruction == <<"A","n","a","l","y","z","e"," ","t","h","i","s"," ",
                        "c","o","n","t","e","n","t">>

\* a plausible slip: the default branch takes the first inferred tool of the
\* instruction it falls back to
MatchPage_FallbackInfers(page, pageType, instrs, instrTools, usedInstructions) ==
    LET t1 == Tier1Index(page, instrTools)
        t2 == IF t1 = 0 THEN Tier2Index(instrTools, usedInstructions) ELSE 0
        t3 == IF t1 = 0 /\ t2 = 0 THEN Tier3Index(instrTools, usedInstructions) ELSE 0
    IN  IF t1 > 0 THEN
            [page |-> page, instruction |-> instrTools[t1].instruction,
             tool |-> BestTool(pageType, instrTools[t1].tools), tier |-> 1]
        ELSE IF t2 > 0 THEN
            [page |-> page, instruction |-> instrTools[t2].instruction,
             tool |-> KeywordOverride(pageType, instrTools[t2].instruction,
                                      BestTool(pageType, instrTools[t2].tools)),
             tier |-> 2]
        ELSE IF t3 > 0 THEN
            [page |-> page, instruction |-> instrTools[t3].instruction,
             tool |-> IF Len(instrTools[t3].tools) > 0 THEN instrTools[t3].tools[1]
                      ELSE "ai_powered_search",
             tier |-> 3]
        ELSE
            [page |-> page,
             instruction |-> IF Len(instrs) > 0 THEN instrs[1] ELSE DefaultInstruction,
             tool |-> IF Len(instrTools) > 0 THEN instrTools[1].tools[1]
                      ELSE "ai_powered_search",
             tier |-> 4]

\* one iteration of the loop over selectedPages: the entry pushed to
\* pageInstructions; tier records which branch produced it (4 = the default one)
MatchPage(page, pageType, instrs, instrTools, usedInstructions) ==
    LET t1 == Tier1Index(page, instrTools)
        t2 == IF t1 = 0 THEN Tier2Index(instrTools, usedInstructions) ELSE 0
        t3 == IF t1 = 0 /\ t2 = 0 THEN Tier3Index(instrTools, usedInstructions) ELSE 0
    IN  IF t1 > 0 THEN
            [page |-> page, instruction |-> instrTools[t1].instruction,
             tool |-> BestTool(pageType, instrTools[t1].tools), tier |-> 1]
        ELSE IF t2 > 0 THEN
            [page |-> page, instruction |-> instrTools[t2].instruction,
             tool |-> KeywordOverride(pageType, instrTools[t2].instruction,
                                      BestTool(pageType, instrTools[t2].tools)),
             tier |-> 2]
        ELSE IF t3 > 0 THEN
            [page |-> page, instruction |-> instrTools[t3].instruction,
             tool |-> IF Len(instrTools[t3].tools) > 0 THEN instrTools[t3].tools[1]
                      ELSE "ai_powered_search",
             tier |-> 3]
        ELSE
            [page |-> page,
             instruction |-> IF Len(instrs) > 0 THEN instrs[1] ELSE DefaultInstruction,
             tool |-> "ai_powered_search", tier |-> 4]

\* a plausible slip: tier 1 forgets usedInstructions.add
MarkUsed_NotInTier1(usedInstructions, m) ==
    IF m.tier \in {2, 3} THEN usedInstructions \cup {m.instruction} ELSE usedInstructions

\* usedInstructions.add(instruction) of tiers 1, 2 and 3; the default branch adds nothing
MarkUsed(usedInstructions, m) ==
    IF m.tier \in {1, 2, 3} THEN usedInstructions \cup {m.instruction} ELSE usedInstructions

\* a plausible slip: a page without a matching instruction gets no entry
RECURSIVE AssignFrom_SkipsUnmatched(_, _, _, _, _, _)
AssignFrom_SkipsUnmatched(selPages, types, instrs, instrTools, k, usedInstructions) ==
    IF k > Len(selPages) THEN <<>>
    ELSE LET m == MatchPage(selPages[k], ContentTypeOf(selPages[k], types), instrs,
                            instrTools, usedInstructions)
         IN  (IF m.tier = 4 THEN <<>> ELSE <<m>>)
             \o AssignFrom_SkipsUnmatched(selPages, types, instrs, instrTools, k + 1,
                                          MarkUsed(usedInstructions, m))

\* the loop over selectedPages from page k on, usedInstructions carried along
RECURSIVE AssignFrom(_, _, _, _, _, _)
AssignFrom(selPages, types, instrs, instrTools, k, usedInstructions) ==
    IF k > Len(selPages) THEN <<>>
    ELSE LET m == MatchPage(selPages[k], ContentTypeOf(selPages[k], types), instrs,
                            instrTools, usedInstructions)
         IN  <<m>> \o AssignFrom(selPages, types, instrs, instrTools, k + 1,
                                 MarkUsed(usedInstructions, m))

\* pageInstructions as handleGoalSubmit builds it for a goal and a selection
AssignPages(selPages, types, instrs) ==
    AssignFrom(selPages, types, instrs, InstructionTools(instrs), 1, {})

----------------------------------------------------------------------------
(* splitRelatedActions                                                     *)

\* length of the match of /\band\b|\bthen\b|;/i at position i of s; 0 = no match
RelatedSeparatorAt(s, i) ==
    IF LitAtI(s, i, <<"a","n","d">>) /\ WordBoundary(s, i) /\ WordBoundary(s, i + 3)
        THEN 3
    ELSE IF LitAtI(s, i, <<"t","h","e","n">>) /\ WordBoundary(s, i) /\ WordBoundary(s, i + 4)
        THEN 4
    ELSE IF LitAt(s, i, <<";">>) THEN 1
    ELSE 0

RECURSIVE SplitRelatedFrom(_, _, _, _)
SplitRelatedFrom(s, p, q, acc) ==
    IF q > Len(s) THEN Append(acc, SubSeq(s, p, Len(s)))
    ELSE LET n == RelatedSeparatorAt(s, q)
         IN  IF n > 0
             THEN SplitRelatedFrom(s, q + n, q + n, Append(acc, SubSeq(s, p, q - 1)))
             ELSE SplitRelatedFrom(s, p, q + 1, acc)

RECURSIVE FilterNonEmpty(_)
FilterNonEmpty(seq) ==
    IF Len(seq) = 0 THEN <<>>
    ELSE (IF Len(seq[1]) > 0 THEN <<seq[1]>> ELSE <<>>) \o FilterNonEmpty(Tail(seq))

splitRelatedActions(instruction) ==
    LET parts == SplitRelatedFrom(instruction, 1, 1, <<>>)
    IN  FilterNonEmpty([i \in 1..Len(parts) |-> trim(parts[i])])

\* the key of actionPromptMap chosen for an action ("" = the action itself is the prompt)
PromptTemplate(action) ==
    IF IncludesAnyI(action, {<<"o","p","t","i","m","i","z","e">>, <<"p","e","r","f","o","r","m","a","n","c","e">>}) THEN "Optimize Performance"
    ELSE IF IncludesAnyI(action, {<<"d","o","c","u","m","e","n","t","a","t","i","o","n">>, <<"d","o","c","s">>, <<"c","o","m","m","e","n","t">>}) THEN "Generate Documentation"
    ELSE IF IncludesAnyI(action, {<<"r","e","f","a","c","t","o","r">>, <<"s","t","r","u","c","t","u","r","e">>}) THEN "Refactor Structure"
    ELSE IF IncludesAnyI(action, {<<"d","e","a","d"," ","c","o","d","e">>, <<"u","n","u","s","e","d">>}) THEN "Identify dead code"
    ELSE IF IncludesAnyI(action, {<<"l","o","g","g","i","n","g">>, <<"l","o","g">>}) THEN "Add Logging Statements"
    ELSE IF IncludesAnyI(action, {<<"s","u","m","m","a","r","i","z","e">>, <<"s","u","m","m","a","r","y">>}) THEN "Summarize Code"
    ELSE ""

----------------------------------------------------------------------------
(* The environment: pages, page types, goals                               *)

MaxSelected == 2   \* most pages selected at once
MaxImages   == 2   \* most images getImages reports for a page
MaxRuns     == 2   \* most valid submissions in one behaviour

ApiDocs == <<"A","P","I"," ","D","o","c","s">>
AuthPy  == <<"a","u","t","h",".","p","y">>
Pic     == <<"p","i","c">>
Clip    == <<"c","l","i","p">>

PageTitles == {ApiDocs, AuthPy, Pic, Clip}

\* what getPagesWithType can answer for the space
CatalogA == <<[title |-> ApiDocs, content_type |-> "text"],
              [title |-> AuthPy,  content_type |-> "code"],
              [title |-> Pic,     content_type |-> "image"],
              [title |-> Clip,    content_type |-> "video"]>>
CatalogB == <<[title |-> ApiDocs, content_type |-> "code"],
              [title |-> Pic,     content_type |-> "video"],
              [title |-> Clip,    content_type |-> "image"]>>

\* pageTypes after fetchPageTypes: a catalog, or empty when the fetch failed
PageTypeStates == {CatalogA, <<>>}

Injective(seq) == \A i \in 1..Len(seq) : \A j \in 1..Len(seq) : seq[i] = seq[j] => i = j

\* the selections the page checkboxes can produce
Selections ==
    {sel \in UNION {[1..n -> PageTitles] : n \in 0..MaxSelected} : Injective(sel)}

Spaces == {"DOCS"}

ExampleGoal == <<"S","u","m","m","a","r","i","z","e"," ","A","P","I"," ","D","o","c","s"," ","a","n","d"," ","r","e","f","a","c","t","o","r"," ","a","u","t","h",".","p","y">>
WhatChanged == <<"w","h","a","t"," ","c","h","a","n","g","e","d">>
ChartGoal   == <<"d","e","s","c","r","i","b","e"," ","t","h","e"," ","c","h","a","r","t">>
DiffAndTest == <<"s","h","o","w"," ","d","i","f","f",","," ","a","d","d"," ","t","e","s","t","s">>

\* goals typed before the first submission
Goals ==
    { <<>>, <<" "," ">>, <<"f","i","x">>, ExampleGoal, WhatChanged, ChartGoal, DiffAndTest,
      <<"s","u","m","m","a","r","i","z","e"," ","v","i","d","e","o">>, <<"o","p","t","i","m","i","z","e"," ","t","h","e","n"," ","f","i","x"," ","b","u","g">> }

\* goals typed for a later submission
LaterGoals == { DiffAndTest }

----------------------------------------------------------------------------
(* handleGoalSubmit as a state machine: one action per stretch of code     *)
(* between two awaits.                                                     *)

ValidationError    == "Please enter a goal, select a space, and at least one page."
OrchestrationError == "An error occurred during orchestration."

\* a collaborator call: apiService.<fn>(...)
Call(fn, space, page, page2, arg, template, img) ==
    [fn |-> fn, space |-> space, page |-> page, page2 |-> page2, arg |-> arg,
     template |-> template, img |-> img]

\* a plausible slip: the goal input is rendered whatever the state of the run
GoalInputShown_Always == TRUE

\* the goal input section is rendered: {!planSteps.length && !isPlanning && (...)}
GoalInputShown == Len(planSteps) = 0 /\ ~isPlanning

\* the Actions row with "Back to Chat" is rendered
BackToChatShown ==
    /\ (Len(planSteps) > 0 /\ ~isPlanning) \/ (currentHistoryId # 0 /\ Len(outputTabs) > 0)
    /\ currentHistoryId = 0

\* the await a page's branch of the dispatch loop suspends at first
FirstPc(tool) ==
    IF tool = "code_assistant" THEN "codeAssistant_initial"
    ELSE IF tool = "image_insights" THEN "getImages"
    ELSE IF tool = "ai_powered_search" THEN "search"
    ELSE IF tool = "video_summarizer" THEN "videoSummarizer"
    ELSE "search_fallback"

\* a plausible slip: the priming call of the code_assistant branch carries the
\* instruction instead of the empty one
FirstCall_PrimesWithInstruction(space, e) ==
    IF e.tool = "code_assistant"
         THEN Call("codeAssistant", space, e.page, <<>>, e.instruction, "", 0)
    ELSE IF e.tool = "image_insights" THEN Call("getImages", space, e.page, <<>>, <<>>, "", 0)
    ELSE IF e.tool = "ai_powered_search"
         THEN Call("search", space, e.page, <<>>, e.instruction, "", 0)
    ELSE IF e.tool = "video_summarizer"
         THEN Call("videoSummarizer", space, e.page, <<>>, <<>>, "", 0)
    ELSE Call("search", space, e.page, <<>>, e.instruction, "", 0)

\* a plausible slip: the branch for video_summarizer is missing, such a page
\* falls through to the last branch
FirstCall_NoVideoBranch(space, e) ==
    IF e.tool = "code_assistant" THEN Call("codeAssistant", space, e.page, <<>>, <<>>, "", 0)
    ELSE IF e.tool = "image_insights" THEN Call("getImages", space, e.page, <<>>, <<>>, "", 0)
    ELSE Call("search", space, e.page, <<>>, e.instruction, "", 0)

\* the call a page's branch of the dispatch loop issues first
FirstCall(space, e) ==
    IF e.tool = "code_assistant" THEN Call("codeAssistant", space, e.page, <<>>, <<>>, "", 0)
    ELSE IF e.tool = "image_insights" THEN Call("getImages", space, e.page, <<>>, <<>>, "", 0)
    ELSE IF e.tool = "ai_powered_search"
         THEN Call("search", space, e.page, <<>>, e.instruction, "", 0)
    ELSE IF e.tool = "video_summarizer"
         THEN Call("videoSummarizer", space, e.page, <<>>, <<>>, "", 0)
    ELSE Call("search", space, e.page, <<>>, e.instruction, "", 0)

\* the audit label pushed to toolsTriggered by the branch suspended at p
ToolLabel(p) ==
    IF p \in {"codeAssistant_initial", "codeAssistant_action"} THEN "Code Assistant"
    ELSE IF p \in {"getImages", "imageSummary"} THEN "Image Insights"
    ELSE IF p = "videoSummarizer" THEN "Video Summarizer"
    ELSE IF p = "impactAnalyzer" THEN "Impact Analyzer"
    ELSE IF p = "testSupport" THEN "Test Support Tool"
    ELSE "AI Powered Search"

\* instructions.some(instruction => /impact|compare|difference|diff/i.test(instruction))
hasImpactInstruction(instrs) ==
    \E i \in 1..Len(instrs) : ImpactInstructionPattern(instrs[i])

\* instructions.some(instruction => /test|qa|test case|unit test/i.test(instruction))
hasTestInstruction(instrs) ==
    \E i \in 1..Len(instrs) : TestInstructionPattern(instrs[i])

\* pageResults[page].push(...), a new key going last
AddResult(results, page, r) ==
    IF \E k \in 1..Len(results) : results[k].page = page
    THEN [k \in 1..Len(results) |->
            IF results[k].page = page
            THEN [results[k] EXCEPT !.results = Append(@, r)]
            ELSE results[k]]
    ELSE Append(results, [page |-> page, results |-> <<r>>])

\* the tabs built at the end of a successful run
Tabs(results, impact, test, triggered, why, how, selPages) ==
    LET standalone ==
            (IF impact THEN <<[page |-> <<>>, results |-> <<>>, kind |-> "impactAnalyzerResult"]>>
             ELSE <<>>)
         \o (IF test THEN <<[page |-> <<>>, results |-> <<>>, kind |-> "testStrategyResult"]>>
             ELSE <<>>)
        perPage == [k \in 1..Len(results) |->
                       [page |-> results[k].page, results |-> results[k].results,
                        kind |-> "page"]]
        pageTabs ==
            IF Len(results) > 0 \/ impact \/ test
            THEN <<[id |-> "per-page-results", results |-> standalone \o perPage,
                    toolsTriggered |-> <<>>, whyUsed |-> <<>>, howDerived |-> <<>>,
                    pages |-> <<>>]>>
            ELSE <<>>
    IN  pageTabs
        \o <<[id |-> "reasoning", results |-> <<>>, toolsTriggered |-> triggered,
              whyUsed |-> why, howDerived |-> how, pages |-> selPages],
             [id |-> "selected-pages", results |-> <<>>, toolsTriggered |-> <<>>,
              whyUsed |-> <<>>, howDerived |-> <<>>, pages |-> selPages]>>

\* addToHistory: the entry prepended (Date.now() modelled as a counter)
HistoryEntry(tabs) ==
    [id |-> Len(history) + 1, goal |-> runGoal, outputTabs |-> tabs,
     selectedSpace |-> runSpace, selectedPages |-> runPages]

closureVars == <<runGoal, runSpace, runPages, instructions, instructionTools,
                 pageInstructions, runs>>
inputVars   == <<goal, selectedSpace, selectedPages, pageTypes, selectVars, voiceVars>>
auditVars   == <<pageResults, toolsTriggered, whyUsed, howDerived,
                 impactAnalyzerResult, testStrategyResult>>

\* a plausible slip: a call is issued while the earlier ones are still awaited
Suspend_NoAwait(p, k, a, cs) ==
    /\ pc' = p
    /\ pageIdx' = k
    /\ actionIdx' = a
    /\ pending' = pending \cup Range(cs)
    /\ calls' = calls \o cs
    /\ UNCHANGED <<uiVars, closureVars, orphaned, runFailed>>

\* the handler issues the calls cs and suspends at p
Suspend(p, k, a, cs) ==
    /\ pc' = p
    /\ pageIdx' = k
    /\ actionIdx' = a
    /\ pending' = Range(cs)
    /\ calls' = calls \o cs
    /\ UNCHANGED <<uiVars, closureVars, orphaned, runFailed>>

\* a plausible slip: the second step is set to running but never to completed
Finish_Step2Running ==
    LET tabs == Tabs(pageResults', impactAnalyzerResult', testStrategyResult',
                     toolsTriggered', whyUsed', howDerived', runPages)
    IN  /\ planSteps' = [k \in 1..Len(planSteps) |->
                           IF k = 2 THEN "running" ELSE "completed"]
        /\ outputTabs' = tabs
        /\ history' = <<HistoryEntry(tabs)>> \o history
        /\ isPlanning' = FALSE
        /\ progressPercent' = 100
        /\ pc' = "idle"
        /\ pending' = {}
        /\ UNCHANGED <<inputVars, error, currentHistoryId, showHistory, closureVars,
                       pageIdx, actionIdx, calls, orphaned, runFailed>>

\* the end of the try block and the statements after it (lines 651-725)
Finish ==
    LET tabs == Tabs(pageResults', impactAnalyzerResult', testStrategyResult',
                     toolsTriggered', whyUsed', howDerived', runPages)
    IN  /\ planSteps' = [k \in 1..Len(planSteps) |-> "completed"]
        /\ outputTabs' = tabs
        /\ history' = <<HistoryEntry(tabs)>> \o history
        /\ isPlanning' = FALSE
        /\ progressPercent' = 100
        /\ pc' = "idle"
        /\ pending' = {}
        /\ UNCHANGED <<inputVars, error, currentHistoryId, showHistory, closureVars,
                       pageIdx, actionIdx, calls, orphaned, runFailed>>

\* the two-page special tools, from the test-support check on (lines 613-649)
AfterImpact ==
    IF Len(runPages) = 2 /\ hasTestInstruction(instructions)
    THEN Suspend("testSupport", pageIdx, actionIdx,
                 <<Call("testSupport", runSpace, runPages[1], runPages[2], runGoal, "", 0)>>)
    ELSE Finish

\* a plausible slip: the two pages passed the other way round
AfterLoop_SwappedPages ==
    IF Len(runPages) = 2 /\ hasImpactInstruction(instructions)
    THEN Suspend("impactAnalyzer", pageIdx, actionIdx,
                 <<Call("impactAnalyzer", runSpace, runPages[2], runPages[1], runGoal, "", 0)>>)
    ELSE AfterImpact

\* the code after the dispatch loop (lines 531-649)
AfterLoop ==
    IF Len(runPages) = 2 /\ hasImpactInstruction(instructions)
    THEN Suspend("impactAnalyzer", pageIdx, actionIdx,
                 <<Call("impactAnalyzer", runSpace, runPages[1], runPages[2], runGoal, "", 0)>>)
    ELSE AfterImpact

\* the end of a page's branch: the audit pushes, pageResults, and the next iteration
PageDone ==
    LET e == pageInstructions[pageIdx]
    IN  /\ toolsTriggered' = Append(toolsTriggered, ToolLabel(pc))
        /\ whyUsed' = Append(whyUsed, [tool |-> ToolLabel(pc), page |-> e.page])
        /\ howDerived' = Append(howDerived, ToolLabel(pc))
        /\ pageResults' = AddResult(pageResults, e.page,
                                    [instruction |-> e.instruction, tool |-> e.tool])
        /\ UNCHANGED <<impactAnalyzerResult, testStrategyResult>>
        /\ IF pageIdx < Len(pageInstructions)
           THEN LET n == pageInstructions[pageIdx + 1]
                IN  Suspend(FirstPc(n.tool), pageIdx + 1, 0, <<FirstCall(runSpace, n)>>)
           ELSE AfterLoop

\* a plausible slip: the goal is tested without trim()
InvalidSubmission_NoTrim(g, space, selPages) ==
    Len(g) = 0 \/ space = "" \/ Len(selPages) = 0

\* !goal.trim() || !selectedSpace || selectedPages.length === 0
InvalidSubmission(g, space, selPages) ==
    Len(trim(g)) = 0 \/ space = "" \/ Len(selPages) = 0

\* handleGoalSubmit up to its first await
HandleGoalSubmit ==
    /\ GoalInputShown
    /\ IF InvalidSubmission(goal, selectedSpace, selectedPages)
       THEN /\ error' = ValidationError
            /\ UNCHANGED <<inputVars, isPlanning, planSteps, outputTabs, history,
                           progressPercent, currentHistoryId, showHistory, runVars>>
       ELSE /\ runs < MaxRuns
            /\ isPlanning' = TRUE
            /\ error' = ""
            /\ planSteps' = <<"running", "pending">>
            /\ outputTabs' = <<>>
            /\ progressPercent' = 0
            /\ currentHistoryId' = 0
            /\ showHistory' = FALSE
            /\ runGoal' = goal
            /\ runSpace' = selectedSpace
            /\ runPages' = selectedPages
            /\ instructions' = splitInstructions(goal)
            /\ instructionTools' = InstructionTools(instructions')
            /\ pageInstructions' = AssignFrom(selectedPages, pageTypes, instructions',
                                            instructionTools', 1, {})
            /\ pageResults' = <<>>
            /\ toolsTriggered' = <<>>
            /\ whyUsed' = <<>>
            /\ howDerived' = <<>>
            /\ impactAnalyzerResult' = FALSE
            /\ testStrategyResult' = FALSE
            /\ runFailed' = FALSE
            /\ runs' = runs + 1
            /\ pageIdx' = 1
            /\ actionIdx' = 0
            /\ pc' = FirstPc(pageInstructions'[1].tool)
            /\ calls' = <<FirstCall(selectedSpace, pageInstructions'[1])>>
            /\ pending' = Range(calls')
            /\ UNCHANGED <<inputVars, history, orphaned>>

\* the initial codeAssistant call resolves: the relatedActions loop starts
ResolveCodeInitial ==
    /\ pc = "codeAssistant_initial"
    /\ LET e == pageInstructions[pageIdx]
       IN  \E relatedActions \in {splitRelatedActions(e.instruction)} :
           IF Len(relatedActions) > 0
           THEN /\ Suspend("codeAssistant_action", pageIdx, 1,
                           <<Call("codeAssistant", runSpace, e.page, <<>>,
                                  relatedActions[1], PromptTemplate(relatedActions[1]), 0)>>)
                /\ UNCHANGED auditVars
           ELSE PageDone

\* a codeAssistant call of the relatedActions loop resolves
ResolveCodeAction ==
    /\ pc = "codeAssistant_action"
    /\ LET e == pageInstructions[pageIdx]
       IN  \E relatedActions \in {splitRelatedActions(e.instruction)} :
           IF actionIdx < Len(relatedActions)
           THEN /\ Suspend("codeAssistant_action", pageIdx, actionIdx + 1,
                           <<Call("codeAssistant", runSpace, e.page, <<>>,
                                  relatedActions[actionIdx + 1],
                                  PromptTemplate(relatedActions[actionIdx + 1]), 0)>>)
                /\ UNCHANGED auditVars
           ELSE PageDone

\* getImages resolves with n images: Promise.all issues one imageSummary per image
ResolveGetImages ==
    /\ pc = "getImages"
    /\ \E n \in 0..MaxImages :
         LET e == pageInstructions[pageIdx]
         IN  IF n > 0
             THEN /\ Suspend("imageSummary", pageIdx, 0,
                             [i \in 1..n |->
                                Call("imageSummary", runSpace, e.page, <<>>, <<>>, "", i)])
                  /\ UNCHANGED auditVars
             ELSE PageDone

\* one imageSummary call resolves; Promise.all resolves with the last one
ResolveImageSummary ==
    /\ pc = "imageSummary"
    /\ \E c \in pending :
         IF pending = {c}
         THEN PageDone
         ELSE /\ pending' = pending \ {c}
              /\ UNCHANGED <<uiVars, closureVars, auditVars, pc, pageIdx, actionIdx,
                             calls, orphaned, runFailed>>

\* the search call of the ai_powered_search branch resolves
ResolveSearch ==
    /\ pc = "search"
    /\ PageDone

\* the videoSummarizer call resolves
ResolveVideoSummarizer ==
    /\ pc = "videoSummarizer"
    /\ PageDone

\* the search call of the fallback branch resolves
ResolveSearchFallback ==
    /\ pc = "search_fallback"
    /\ PageDone

\* a plausible slip: the impact analyzer branch forgets whyUsed.push
ResolveImpactAnalyzer_NoWhyUsed ==
    /\ pc = "impactAnalyzer"
    /\ impactAnalyzerResult' = TRUE
    /\ toolsTriggered' = Append(toolsTriggered, ToolLabel(pc))
    /\ howDerived' = Append(howDerived, ToolLabel(pc))
    /\ UNCHANGED <<pageResults, testStrategyResult, whyUsed>>
    /\ AfterImpact

\* the impactAnalyzer call resolves
ResolveImpactAnalyzer ==
    /\ pc = "impactAnalyzer"
    /\ impactAnalyzerResult' = TRUE
    /\ toolsTriggered' = Append(toolsTriggered, ToolLabel(pc))
    /\ whyUsed' = Append(whyUsed, [tool |-> ToolLabel(pc), page |-> runPages[1]])
    /\ howDerived' = Append(howDerived, ToolLabel(pc))
    /\ UNCHANGED <<pageResults, testStrategyResult>>
    /\ AfterImpact

\* the testSupport call resolves
ResolveTestSupport ==
    /\ pc = "testSupport"
    /\ testStrategyResult' = TRUE
    /\ toolsTriggered' = Append(toolsTriggered, ToolLabel(pc))
    /\ whyUsed' = Append(whyUsed, [tool |-> ToolLabel(pc), page |-> runPages[1]])
    /\ howDerived' = Append(howDerived, ToolLabel(pc))
    /\ UNCHANGED <<pageResults, impactAnalyzerResult>>
    /\ Finish

\* a plausible slip: the catch block shows what the earlier pages produced
RejectCall_KeepsPartial ==
    /\ pc # "idle"
    /\ \E c \in pending :
         /\ error' = OrchestrationError
         /\ outputTabs' = Tabs(pageResults, impactAnalyzerResult, testStrategyResult,
                               toolsTriggered, whyUsed, howDerived, runPages)
         /\ isPlanning' = FALSE
         /\ progressPercent' = 100
         /\ pc' = "idle"
         /\ pending' = {}
         /\ orphaned' = orphaned + Cardinality(pending \ {c})
         /\ runFailed' = TRUE
         /\ UNCHANGED <<inputVars, planSteps, history, currentHistoryId,
                        showHistory, closureVars, auditVars, pageIdx, actionIdx, calls>>

\* a plausible slip: setIsPlanning(false) at the end of the try block instead
\* of after the catch block
RejectCall_StaysPlanning ==
    /\ pc # "idle"
    /\ \E c \in pending :
         /\ error' = OrchestrationError
         /\ progressPercent' = 100
         /\ pc' = "idle"
         /\ pending' = {}
         /\ orphaned' = orphaned + Cardinality(pending \ {c})
         /\ runFailed' = TRUE
         /\ UNCHANGED <<inputVars, isPlanning, planSteps, outputTabs, history,
                        currentHistoryId, showHistory, closureVars, auditVars,
                        pageIdx, actionIdx, calls>>

\* an awaited call rejects: the catch block and the statements after it.
\* The other calls of a Promise.all stay in flight with nobody awaiting them.
RejectCall ==
    /\ pc # "idle"
    /\ \E c \in pending :
         /\ error' = OrchestrationError
         /\ isPlanning' = FALSE
         /\ progressPercent' = 100
         /\ pc' = "idle"
         /\ pending' = {}
         /\ orphaned' = orphaned + Cardinality(pending \ {c})
         /\ runFailed' = TRUE
         /\ UNCHANGED <<inputVars, planSteps, outputTabs, history, currentHistoryId,
                        showHistory, closureVars, auditVars, pageIdx, actionIdx, calls>>

\* a call nobody awaits any more settles
SettleOrphan ==
    /\ orphaned > 0
    /\ orphaned' = orphaned - 1
    /\ UNCHANGED <<uiVars, closureVars, auditVars, pc, pageIdx, actionIdx, pending,
                   calls, runFailed>>

\* the textarea's onChange: the user types a goal
SetGoal ==
    /\ GoalInputShown
    /\ runs < MaxRuns
    /\ \E g \in (IF runs = 0 THEN Goals ELSE LaterGoals) :
         /\ g # goal
         /\ goal' = g
    /\ UNCHANGED <<selectedSpace, selectedPages, pageTypes, isPlanning, error, planSteps,
                   outputTabs, history, progressPercent, currentHistoryId, showHistory,
                   runVars, selectVars, voiceVars>>

backToChat ==
    /\ BackToChatShown
    /\ planSteps' = <<>>
    /\ outputTabs' = <<>>
    /\ goal' = <<>>
    /\ error' = ""
    /\ progressPercent' = 0
    /\ currentHistoryId' = 0
    /\ showHistory' = FALSE
    /\ UNCHANGED <<selectedSpace, selectedPages, pageTypes, isPlanning, history, runVars,
                   selectVars, voiceVars>>

\* the state of everything but the inputs after construction
Constructed ==
    /\ isPlanning = FALSE
    /\ error = ""
    /\ planSteps = <<>>
    /\ outputTabs = <<>>
    /\ history = <<>>
    /\ progressPercent = 0
    /\ currentHistoryId = 0
    /\ showHistory = FALSE
    /\ pc = "idle"
    /\ runGoal = <<>>
    /\ runSpace = ""
    /\ runPages = <<>>
    /\ instructions = <<>>
    /\ instructionTools = <<>>
    /\ pageInstructions = <<>>
    /\ pageIdx = 0
    /\ actionIdx = 0
    /\ pending = {}
    /\ orphaned = 0
    /\ calls = <<>>
    /\ pageResults = <<>>
    /\ toolsTriggered = <<>>
    /\ whyUsed = <<>>
    /\ howDerived = <<>>
    /\ impactAnalyzerResult = FALSE
    /\ testStrategyResult = FALSE
    /\ runFailed = FALSE
    /\ runs = 0
    /\ isListening = FALSE
    /\ transcript = <<>>
    /\ pendingTranscript = <<>>
    /\ speechError = ""
    /\ confirmed = <<>>

\* the sync effect of "Select All": pages.length > 0 && selectedPages.length === pages.length
SelectAllSync(sel, list) == Len(list) > 0 /\ Len(sel) = Len(list)

\* the effects of mounting have run: the spaces and the pages are loaded
Mounted ==
    /\ spaces = <<"DOCS">>
    /\ pages = <<ApiDocs, AuthPy, Pic, Clip>>
    /\ selectAllPages = SelectAllSync(selectedPages, pages)
    /\ loads = <<>>
    /\ recognition = "inactive"

\* the component after mounting, once the user has chosen a space and pages
Init ==
    /\ goal = <<>>
    /\ selectedSpace \in Spaces \cup {""}
    /\ selectedPages \in Selections
    /\ pageTypes \in PageTypeStates
    /\ Constructed
    /\ Mounted

Next ==
    \/ SetGoal
    \/ HandleGoalSubmit
    \/ ResolveCodeInitial
    \/ ResolveCodeAction
    \/ ResolveGetImages
    \/ ResolveImageSummary
    \/ ResolveSearch
    \/ ResolveVideoSummarizer
    \/ ResolveSearchFallback
    \/ ResolveImpactAnalyzer
    \/ ResolveTestSupport
    \/ RejectCall
    \/ SettleOrphan
    \/ backToChat

Spec == Init /\ [][Next]_vars

(***************************************************************************)
(* splitInstructions on its own: the goal is drawn from short texts made   *)
(* of words, separator tokens and white space, and the function is applied *)
(* once.                                                                   *)
(***************************************************************************)
MaxChunks == 3

SplitChunks == {
    <<" ">>,
    <<"a","b">>,
    <<"w","h","a","t">>,
    <<"s","a","n","d","y">>,
    <<"a","n","d">>,
    <<"A","N","D">>,
    <<"t","h","e","n">>,
    <<".">>,
    <<",">>,
    <<";">>,
    <<"|">>,
    <<"\n">>,
    <<"\r">> }

RECURSIVE Concat(_, _)
Concat(cs, k) == IF k > Len(cs) THEN <<>> ELSE cs[k] \o Concat(cs, k + 1)

SplitGoals == { Concat(cs, 1) : cs \in UNION { [1..k -> SplitChunks] : k \in 0..MaxChunks } }

InitSplit ==
    /\ goal \in SplitGoals
    /\ selectedSpace = ""
    /\ selectedPages = <<>>
    /\ pageTypes = <<>>
    /\ Constructed
    /\ Mounted

\* const instructions = splitInstructions(goal)
Split ==
    /\ pc = "idle"
    /\ pc' = "split"
    /\ instructions' = splitInstructions(goal)
    /\ UNCHANGED <<uiVars, runGoal, runSpace, runPages, instructionTools,
                   pageInstructions, pageIdx,
                   actionIdx, pending, orphaned, calls, pageResults, toolsTriggered,
                   whyUsed, howDerived, impactAnalyzerResult, testStrategyResult,
                   runFailed, runs>>

NextSplit == Split

SpecSplit == InitSplit /\ [][NextSplit]_vars

(***************************************************************************)
(* The planning part of handleGoalSubmit on its own: the goal is a list of *)
(* clauses joined by " and ", the pages and their content types vary, and  *)
(* the goal is split and the instructions are assigned to the pages.       *)
(***************************************************************************)
MaxClauses == 2

RouteClauses == {
    <<"S","u","m","m","a","r","i","z","e"," ","A","P","I"," ","D","o","c","s">>,
    <<"r","e","f","a","c","t","o","r"," ","a","u","t","h",".","p","y">>,
    <<"f","i","x">>,
    <<"w","h","a","t"," ","c","h","a","n","g","e","d">>,
    <<"c","o","m","p","a","r","e"," ","p","i","c"," ","w","i","t","h"," ","A","P","I"," ","D","o","c","s">> }

AndWord == <<" ","a","n","d"," ">>

RECURSIVE JoinClauses(_, _)
JoinClauses(cs, k) ==
    IF k = Len(cs) THEN cs[k] ELSE cs[k] \o AndWord \o JoinClauses(cs, k + 1)

RouteGoals == { JoinClauses(cs, 1) : cs \in UNION { [1..k -> RouteClauses] : k \in 1..MaxClauses } }

RoutePages == {ApiDocs, AuthPy, Pic}

RouteSelections ==
    UNION { {sel \in [1..n -> RoutePages] : Injective(sel)} : n \in 1..MaxSelected }

InitRoute ==
    /\ goal \in RouteGoals
    /\ selectedSpace \in Spaces
    /\ selectedPages \in RouteSelections
    /\ pageTypes \in {CatalogA, CatalogB}
    /\ Constructed
    /\ Mounted

\* handleGoalSubmit from the validation to the end of the matching loop
Route ==
    /\ pc = "idle"
    /\ ~InvalidSubmission(goal, selectedSpace, selectedPages)
    /\ pc' = "routed"
    /\ runGoal' = goal
    /\ runSpace' = selectedSpace
    /\ runPages' = selectedPages
    /\ instructions' = splitInstructions(goal)
    /\ instructionTools' = InstructionTools(instructions')
    /\ pageInstructions' = AssignFrom(selectedPages, pageTypes, instructions',
                                    instructionTools', 1, {})
    /\ UNCHANGED <<uiVars, pageIdx, actionIdx, pending, orphaned, calls, pageResults,
                   toolsTriggered, whyUsed, howDerived, impactAnalyzerResult,
                   testStrategyResult, runFailed, runs>>

NextRoute == Route

SpecRoute == InitRoute /\ [][NextRoute]_vars

----------------------------------------------------------------------------
(* Properties of the orchestration run (specification Spec)                *)

IsBlank(s) == \A i \in 1..Len(s) : IsSpace(s[i])

TwoPageTools == {"impactAnalyzer", "testSupport"}

\* position of a page in the selection the run works on
PagePos(page) == CHOOSE k \in 1..Len(runPages) : runPages[k] = page

\* the last run has ended without a failure
RunSucceeded == runs > 0 /\ pc = "idle" /\ ~runFailed

\* C1: a submission whose goal is empty or white space only, or that has no
\* space or no pages, sets the validation error, issues no collaborator call
\* and leaves isPlanning, the plan steps, the output tabs and the history as
\* they were.
C1_InvalidSubmissionRejected ==
    [][ (HandleGoalSubmit /\ (IsBlank(goal) \/ selectedSpace = "" \/ selectedPages = <<>>))
        => /\ error' = ValidationError
           /\ calls' = calls
           /\ pending' = pending
           /\ pc' = "idle"
           /\ UNCHANGED <<isPlanning, planSteps, outputTabs, history>> ]_vars

\* a goal of white space only has been rejected although a space and pages are selected
C1_Witness ==
    /\ error = ValidationError
    /\ Len(goal) > 0 /\ IsBlank(goal)
    /\ selectedSpace # "" /\ Len(selectedPages) > 0
    /\ runs = 0 /\ calls = <<>>

\* C3: when a call of the run rejects, the run ends with the orchestration
\* error as the only message, the output tabs stay empty although earlier
\* pages were processed, and the history gets no entry.
C3_FailureShowsOnlyError ==
    [][ RejectCall
        => /\ pc' = "idle"
           /\ ~isPlanning'
           /\ error' = OrchestrationError
           /\ outputTabs' = <<>>
           /\ history' = history ]_vars

\* a run has failed after it had processed a page
C3_Witness ==
    /\ runFailed /\ pc = "idle"
    /\ Len(pageResults) > 0
    /\ error = OrchestrationError /\ outputTabs = <<>>

\* C4 as stated: during a run at most one collaborator call is outstanding.
C4_AtMostOneOutstanding ==
    pc # "idle" => Cardinality(pending) <= 1

\* C4, amended: the calls outstanding during a run are a single call or the
\* imageSummary calls of one image page; they belong to the page the loop is
\* at (or are a two-page tool call after the loop), nothing but such siblings
\* is issued while a call is outstanding, and the calls are issued in page
\* order.
C4_OnlyImageSummariesOverlap ==
    pc # "idle" =>
        /\ \A c \in pending : \A d \in pending :
              c # d => c.fn = "imageSummary" /\ d.fn = "imageSummary"
        /\ \A c \in pending :
              \/ c.fn \in TwoPageTools /\ pageIdx = Len(pageInstructions)
              \/ c.fn \notin TwoPageTools /\ c.page = pageInstructions[pageIdx].page
        /\ \A i \in 1..Len(calls) : \A j \in 1..Len(calls) :
              (i < j /\ calls[i] \in pending) =>
                  /\ calls[i].fn = "imageSummary" /\ calls[j].fn = "imageSummary"
                  /\ calls[j].page = calls[i].page
        /\ \A i \in 1..Len(calls) : \A j \in 1..Len(calls) :
              (i < j /\ calls[i].fn \notin TwoPageTools /\ calls[j].fn \notin TwoPageTools)
                  => PagePos(calls[i].page) <= PagePos(calls[j].page)

\* two imageSummary calls of an image page are outstanding at once
C4_Witness ==
    /\ pc = "imageSummary"
    /\ Cardinality(pending) = 2
    /\ \A c \in pending : c.fn = "imageSummary"

\* C5 as stated: a run on two pages whose goal contains "what changed"
\* invokes the impactAnalyzer collaborator.
C5_WhatChangedInvokesImpactAnalyzer ==
    (RunSucceeded /\ Len(runPages) = 2 /\ Includes(runGoal, WhatChanged))
        => \E i \in 1..Len(calls) : calls[i].fn = "impactAnalyzer"

\* C6: impactAnalyzer and testSupport are called only in runs on exactly two
\* pages, at most once each, after every per-page call has been issued and
\* has resolved, with the first selected page as old/code page and the
\* second as new/test-input page.
C6_TwoPageToolsLastAndOnce ==
    \A i \in 1..Len(calls) :
        calls[i].fn \in TwoPageTools =>
            /\ Len(runPages) = 2
            /\ calls[i].page = runPages[1]
            /\ calls[i].page2 = runPages[2]
            /\ \A j \in 1..Len(calls) : calls[j].fn = calls[i].fn => j = i
            /\ \A j \in 1..Len(calls) : j > i => calls[j].fn \in TwoPageTools
            /\ \A c \in pending : c.fn \in TwoPageTools
            /\ Len(pageResults) = Len(runPages)

\* a run has called both two-page tools
C6_Witness ==
    /\ RunSucceeded
    /\ \E i \in 1..Len(calls) : calls[i].fn = "impactAnalyzer"
    /\ \E i \in 1..Len(calls) : calls[i].fn = "testSupport"

----------------------------------------------------------------------------
(* Properties of the planning part (specification SpecRoute)               *)

Routed == pc = "routed"

\* C2: for every valid submission pageInstructions has exactly one entry per
\* selected page, in the order of the selected pages, whatever the number of
\* instructions (zero included).
C2_OneEntryPerPageInOrder ==
    Routed =>
        /\ Len(pageInstructions) = Len(runPages)
        /\ \A k \in 1..Len(runPages) : pageInstructions[k].page = runPages[k]

\* a goal without any instruction has been routed to two pages
C2_Witness ==
    /\ Routed
    /\ instructions = <<>>
    /\ Len(runPages) = 2
    /\ Len(pageInstructions) = 2

\* C7 as stated: for the pages API Docs (text) and auth.py (code) and the goal
\* "Summarize API Docs and refactor auth.py" the entries are (API Docs, an
\* instruction containing "Summarize API Docs", ai_powered_search) and
\* (auth.py, an instruction containing "refactor auth.py", code_assistant),
\* both found by the explicit-mention tier.
C7_ExampleResolvedByMention ==
    (Routed /\ runGoal = ExampleGoal /\ runPages = <<ApiDocs, AuthPy>> /\ pageTypes = CatalogA)
        => /\ Len(pageInstructions) = 2
           /\ pageInstructions[1].page = ApiDocs
           /\ Includes(pageInstructions[1].instruction, <<"S","u","m","m","a","r","i","z","e"," ","A","P","I"," ","D","o","c","s">>)
           /\ pageInstructions[1].tool = "ai_powered_search"
           /\ pageInstructions[1].tier = 1
           /\ pageInstructions[2].page = AuthPy
           /\ Includes(pageInstructions[2].instruction, <<"r","e","f","a","c","t","o","r"," ","a","u","t","h",".","p","y">>)
           /\ pageInstructions[2].tool = "code_assistant"
           /\ pageInstructions[2].tier = 1

\* C8 as stated: an instruction assigned to a page by tier 1, 2 or 3 is not
\* assigned to a later page by any of the tiers 1 to 3.
C8_NoReuseByTiers ==
    Routed =>
        \A i \in 1..Len(pageInstructions) : \A j \in 1..Len(pageInstructions) :
            (i < j /\ pageInstructions[i].tier \in {1, 2, 3}
                   /\ pageInstructions[j].tier \in {1, 2, 3})
                => pageInstructions[i].instruction # pageInstructions[j].instruction

\* C8, amended: an instruction assigned to a page by tier 1, 2 or 3 is not
\* assigned to a later page by tier 2 or tier 3 (tier 1, the explicit mention,
\* does not consult usedInstructions and may assign it again).
C8_NoReuseByLaterTiers ==
    Routed =>
        \A i \in 1..Len(pageInstructions) : \A j \in 1..Len(pageInstructions) :
            (i < j /\ pageInstructions[i].tier \in {1, 2, 3}
                   /\ pageInstructions[j].tier \in {2, 3})
                => pageInstructions[i].instruction # pageInstructions[j].instruction

\* the first page took an instruction by mention and the second one the next by tier 2
C8_Witness ==
    /\ Routed
    /\ Len(pageInstructions) = 2
    /\ pageInstructions[1].tier = 1
    /\ pageInstructions[2].tier = 2
    /\ pageInstructions[2].instruction = instructions[2]

\* C9 as stated: when there are as many selected pages as instructions, no two
\* pages receive the identical instruction string.
C9_NoSharedInstruction ==
    (Routed /\ Len(runPages) = Len(instructions)) =>
        \A i \in 1..Len(pageInstructions) : \A j \in 1..Len(pageInstructions) :
            i < j => pageInstructions[i].instruction # pageInstructions[j].instruction

\* C9, amended: when there are as many selected pages as instructions and the
\* instruction strings are pairwise different, two pages receive the identical
\* instruction string only if the later page got it by explicit mention.
C9_SharedOnlyByMention ==
    (Routed /\ Len(runPages) = Len(instructions) /\ Injective(instructions)) =>
        \A i \in 1..Len(pageInstructions) : \A j \in 1..Len(pageInstructions) :
            (i < j /\ pageInstructions[i].instruction = pageInstructions[j].instruction)
                => pageInstructions[j].tier = 1

\* two pages, two different instructions, and both pages got the one that mentions them
C9_Witness ==
    /\ Routed
    /\ Len(runPages) = 2 /\ Len(instructions) = 2
    /\ Injective(instructions)
    /\ pageInstructions[1].instruction = pageInstructions[2].instruction
    /\ pageInstructions[2].tier = 1

----------------------------------------------------------------------------
(* Properties of splitInstructions (specification SpecSplit)               *)

\* the word w stands at position i of s as a whole word, in either case
WordAt(s, i, w) == LitAtI(s, i, w) /\ WordBoundary(s, i) /\ WordBoundary(s, i + Len(w))

\* s contains one of the separator tokens: the words and/then, newline,
\* carriage return, period, semicolon, comma, double pipe, pipe and white space
ContainsSeparatorToken(s) ==
    \E i \in 1..Len(s) :
        \/ WordAt(s, i, <<"a","n","d">>)
        \/ WordAt(s, i, <<"t","h","e","n">>)
        \/ s[i] \in {"\n", "\r", ".", ";", ","}
        \/ s[i] = "|" /\ i < Len(s) /\ (s[i + 1] = "|" \/ IsSpace(s[i + 1]))

\* C10 as stated: for a goal without separator token splitInstructions returns
\* exactly one instruction, the trimmed goal.
C10_NoSeparatorOneInstruction ==
    (pc = "split" /\ ~ContainsSeparatorToken(goal)) => instructions = <<trim(goal)>>

\* C10, amended: for a goal without separator token whose trimmed length is
\* greater than 3, splitInstructions returns exactly one instruction, the
\* trimmed goal; when the trimmed length is 3 or less it returns none.
C10_LongGoalOneInstruction ==
    (pc = "split" /\ ~ContainsSeparatorToken(goal))
        => instructions = IF Len(trim(goal)) > 3
                          THEN <<trim(goal)>> ELSE <<>>

\* a goal with white space around it and no separator has been split into itself, trimmed
C10_Witness ==
    /\ pc = "split"
    /\ ~ContainsSeparatorToken(goal)
    /\ Len(trim(goal)) > 3
    /\ Len(goal) > Len(trim(goal))
    /\ instructions = <<trim(goal)>>

\* the fragments of the goal whose trimmed length exceeds 3
LongFragments(s) ==
    LET parts == SplitFrom(s, 1, 1, <<>>)
    IN  {k \in 1..Len(parts) : Len(trim(parts[k])) > 3}

\* C11 as stated: for a goal that passes the validation (not blank)
\* splitInstructions returns at least one instruction.
C11_ValidGoalHasInstruction ==
    (pc = "split" /\ ~IsBlank(goal)) => Len(instructions) >= 1

\* C11, amended: splitInstructions returns one instruction per fragment of the
\* split whose trimmed length is greater than 3, so it returns at least one
\* exactly when the goal has such a fragment; a goal that passes the
\* validation but has none yields no instruction.
C11_OneInstructionPerLongFragment ==
    pc = "split" =>
        /\ Len(instructions) = Cardinality(LongFragments(goal))
        /\ (Len(instructions) >= 1 <=> LongFragments(goal) # {})

\* a goal with a separator has been split into two instructions
C11_Witness ==
    /\ pc = "split"
    /\ ~IsBlank(goal)
    /\ ContainsSeparatorToken(goal)
    /\ Len(instructions) = 2

\* the texts of instrs occur in s one after the other, from position from on
RECURSIVE OccursInOrder(_, _, _, _)
OccursInOrder(instrs, s, k, from) ==
    IF k > Len(instrs) THEN TRUE
    ELSE \E p \in from..Len(s) :
            /\ LitAt(s, p, instrs[k])
            /\ OccursInOrder(instrs, s, k + 1, p + Len(instrs[k]))

\* C12: every instruction returned by splitInstructions is a trimmed piece of
\* the goal that contains no separator and is longer than 3 characters, and
\* the instructions occur in the goal in the order in which they are returned.
C12_InstructionsAreOrderedFragments ==
    pc = "split" =>
        /\ \A k \in 1..Len(instructions) :
              /\ Len(instructions[k]) > 3
              /\ ~IsSpace(instructions[k][1])
              /\ ~IsSpace(instructions[k][Len(instructions[k])])
              /\ ~ContainsSeparatorToken(instructions[k])
        /\ OccursInOrder(instructions, goal, 1, 1)

\* two different instructions came out of one goal
C12_Witness ==
    /\ pc = "split"
    /\ Len(instructions) = 2
    /\ instructions[1] # instructions[2]

----------------------------------------------------------------------------
(* The tool inference on its own: the goal is one or more words joined by  *)
(* spaces; it is split and the tools of every instruction are inferred.    *)

MaxWords == 2

InferWords == {
    <<"s","u","m","m","a","r","i","z","e">>,
    <<"v","i","d","e","o">>,
    <<"i","m","a","g","e">>,
    <<"o","p","t","i","m","i","z","e">>,
    <<"p","e","r","f","o","r","m","a","n","c","e">>,
    <<"c","h","a","n","g","e","d">>,
    <<"u","n","i","t"," ","t","e","s","t">>,
    <<"h","e","l","l","o">>,
    <<"T","r","a","n","s","c","r","i","b","e">>,
    <<"t","e","x","t">>,
    <<"c","h","a","r","t">>,
    <<"d","e","b","u","g">> }

Space == <<" ">>

RECURSIVE JoinWords(_, _)
JoinWords(ws, k) ==
    IF k = Len(ws) THEN ws[k] ELSE ws[k] \o Space \o JoinWords(ws, k + 1)

InferGoals == { JoinWords(ws, 1) : ws \in UNION { [1..k -> InferWords] : k \in 1..MaxWords } }

InitInfer ==
    /\ goal \in InferGoals
    /\ selectedSpace \in Spaces
    /\ selectedPages = <<>>
    /\ pageTypes = <<>>
    /\ Constructed
    /\ Mounted

\* handleGoalSubmit from the split to the end of the inference loop
Infer ==
    /\ pc = "idle"
    /\ pc' = "inferred"
    /\ instructions' = splitInstructions(goal)
    /\ instructionTools' = InstructionTools(instructions')
    /\ UNCHANGED <<uiVars, runGoal, runSpace, runPages, pageInstructions, pageIdx,
                   actionIdx, pending, orphaned, calls, pageResults, toolsTriggered,
                   whyUsed, howDerived, impactAnalyzerResult, testStrategyResult,
                   runFailed, runs>>

NextInfer == Infer

SpecInfer == InitInfer /\ [][NextInfer]_vars

\* the six tools in the order of the six tests
ToolOrder == <<"video_summarizer", "image_insights", "code_assistant",
               "ai_powered_search", "impact_analyzer", "test_support">>

\* the lowercased text matches the keyword pattern of the tool
MatchesPatternOf(tool, lower) ==
    IF tool = "video_summarizer" THEN VideoPattern(lower)
    ELSE IF tool = "image_insights" THEN ImagePattern(lower)
    ELSE IF tool = "code_assistant" THEN CodePattern(lower)
    ELSE IF tool = "ai_powered_search" THEN TextPattern(lower)
    ELSE IF tool = "impact_analyzer" THEN ImpactPattern(lower)
    ELSE TestPattern(lower)

MatchesNoPattern(lower) ==
    \A k \in 1..Len(ToolOrder) : ~MatchesPatternOf(ToolOrder[k], lower)

\* tools lists members of ToolOrder in that order, none of them twice
InToolOrder(tools) ==
    \E pos \in [1..Len(tools) -> 1..Len(ToolOrder)] :
        /\ \A i \in 1..Len(tools) : tools[i] = ToolOrder[pos[i]]
        /\ \A i \in 1..Len(tools) : \A j \in 1..Len(tools) : i < j => pos[i] < pos[j]

Inferred == pc = "inferred"

\* C13: the inferred tool list of every instruction is non-empty, and it is
\* exactly <<ai_powered_search>> when the instruction matches none of the six
\* keyword patterns.
C13_ToolsNonEmptyWithDefault ==
    Inferred =>
        /\ Len(instructionTools) = Len(instructions)
        /\ \A k \in 1..Len(instructionTools) :
              /\ instructionTools[k].instruction = instructions[k]
              /\ Len(instructionTools[k].tools) >= 1
              /\ MatchesNoPattern(toLowerCase(instructions[k]))
                    => instructionTools[k].tools = <<"ai_powered_search">>

\* an instruction that matches no pattern has got the default tool
C13_Witness ==
    /\ Inferred
    /\ Len(instructions) = 1
    /\ MatchesNoPattern(toLowerCase(instructions[1]))
    /\ instructionTools[1].tools = <<"ai_powered_search">>

\* C14 as stated: the inferred tool list contains each tool exactly when the
\* lowercased instruction matches the tool's keyword pattern, in the fixed
\* order and without repetition, and an instruction that contains "optimize"
\* or "performance" includes code_assistant.
C14_ToolListedIffPatternMatches ==
    Inferred =>
        \A k \in 1..Len(instructionTools) :
            LET lower == toLowerCase(instructions[k])
                tools == instructionTools[k].tools
            IN  /\ \A t \in 1..Len(ToolOrder) :
                      InSeq(ToolOrder[t], tools) <=> MatchesPatternOf(ToolOrder[t], lower)
                /\ InToolOrder(tools)
                /\ IncludesAny(lower, {<<"o","p","t","i","m","i","z","e">>, <<"p","e","r","f","o","r","m","a","n","c","e">>}) => InSeq("code_assistant", tools)

\* C14, amended: as stated for every instruction that matches at least one of
\* the six patterns; an instruction that matches none gets ai_powered_search
\* although it does not match that tool's pattern.
C14_ToolListedIffPatternMatchesOrDefault ==
    Inferred =>
        \A k \in 1..Len(instructionTools) :
            LET lower == toLowerCase(instructions[k])
                tools == instructionTools[k].tools
            IN  /\ ~MatchesNoPattern(lower) =>
                      \A t \in 1..Len(ToolOrder) :
                          InSeq(ToolOrder[t], tools) <=> MatchesPatternOf(ToolOrder[t], lower)
                /\ MatchesNoPattern(lower) => tools = <<"ai_powered_search">>
                /\ InToolOrder(tools)
                /\ IncludesAny(lower, {<<"o","p","t","i","m","i","z","e">>, <<"p","e","r","f","o","r","m","a","n","c","e">>}) => InSeq("code_assistant", tools)

\* "optimize performance" has been inferred as a code instruction
C14_Witness ==
    /\ Inferred
    /\ Len(instructions) = 1
    /\ Includes(toLowerCase(instructions[1]), <<"o","p","t","i","m","i","z","e">>)
    /\ Includes(toLowerCase(instructions[1]), <<"p","e","r","f","o","r","m","a","n","c","e">>)
    /\ instructionTools[1].tools = <<"code_assistant">>

----------------------------------------------------------------------------
(* The planning part once more, on goals and pages that exercise the tool  *)
(* choice: video, image and code pages, and instructions with and without  *)
(* the keywords of the page types.                                         *)

ToolClauses == {
    <<"s","u","m","m","a","r","i","z","e"," ","v","i","d","e","o">>,
    <<"c","o","n","v","e","r","t"," ","p","i","c">>,
    <<"d","e","s","c","r","i","b","e"," ","t","h","e"," ","c","h","a","r","t">>,
    <<"f","i","x"," ","b","u","g","s">> }

ToolGoals == { JoinClauses(cs, 1) : cs \in UNION { [1..k -> ToolClauses] : k \in 1..MaxClauses } }

ToolPages == {AuthPy, Pic, Clip}

ToolSelections ==
    UNION { {sel \in [1..n -> ToolPages] : Injective(sel)} : n \in 1..MaxSelected }

CatalogC == <<[title |-> AuthPy, content_type |-> "image"],
              [title |-> Pic,    content_type |-> "code"],
              [title |-> Clip,   content_type |-> "video"]>>

InitRouteTools ==
    /\ goal \in ToolGoals
    /\ selectedSpace \in Spaces
    /\ selectedPages \in ToolSelections
    /\ pageTypes \in {CatalogA, CatalogC}
    /\ Constructed
    /\ Mounted

SpecRouteTools == InitRouteTools /\ [][NextRoute]_vars

VideoWord == <<"v","i","d","e","o">>
SummarizeWord == <<"s","u","m","m","a","r","i","z","e">>

MentionsVideoAndSummarize(instruction) ==
    /\ Includes(toLowerCase(instruction), VideoWord)
    /\ Includes(toLowerCase(instruction), SummarizeWord)

TypeKeywordMatches(pageType, instruction) ==
    \/ pageType = "image" /\ ImageKeywords(toLowerCase(instruction))
    \/ pageType = "code" /\ CodeKeywords(toLowerCase(instruction))
    \/ pageType = "video" /\ VideoKeywords(toLowerCase(instruction))

ToolOfType(pageType) ==
    IF pageType = "image" THEN "image_insights"
    ELSE IF pageType = "code" THEN "code_assistant"
    ELSE "video_summarizer"

\* C18: a page assigned in tier 2 whose type is image, code or video and whose
\* instruction matches the keyword pattern of that type gets image_insights,
\* code_assistant or video_summarizer, whatever the priority table picked and
\* whether or not the tool was inferred; a tier-1 assignment keeps the tool of
\* the priority table.
C18_KeywordOverrideInTier2Only ==
    Routed =>
        \A k \in 1..Len(pageInstructions) :
            LET e == pageInstructions[k]
                pageType == ContentTypeOf(e.page, pageTypes)
            IN  /\ (e.tier = 2 /\ TypeKeywordMatches(pageType, e.instruction))
                       => e.tool = ToolOfType(pageType)
                /\ e.tier = 1 => e.tool = BestTool(pageType, InferTools(e.instruction))

\* a code page has got code_assistant in tier 2 although the tool was not inferred
C18_Witness ==
    /\ Routed
    /\ \E k \in 1..Len(pageInstructions) :
          /\ pageInstructions[k].tier = 2
          /\ ContentTypeOf(pageInstructions[k].page, pageTypes) = "code"
          /\ pageInstructions[k].tool = "code_assistant"
          /\ ~InSeq("code_assistant", InferTools(pageInstructions[k].instruction))

----------------------------------------------------------------------------
(* Claims about the tiers of the matching loop, checked on SpecRoute.      *)

\* the lowercased instruction contains the lowercased title, as it is or with
\* its whitespace replaced by "_" or by "-"
Mentions(instruction, title) ==
    \E variant \in {toLowerCase(title),
                    ReplaceSpaces(toLowerCase(title), <<"_">>),
                    ReplaceSpaces(toLowerCase(title), <<"-">>)} :
        Includes(toLowerCase(instruction), variant)

MentioningInstructions(title) ==
    {i \in 1..Len(instructions) : Mentions(instructions[i], title)}

\* C16: a page that at least one instruction mentions is assigned the first
\* instruction that mentions it, hence never one that does not mention it.
C16_ExplicitMentionPreferred ==
    Routed =>
        \A k \in 1..Len(pageInstructions) :
            LET hits == MentioningInstructions(runPages[k])
            IN  hits # {} =>
                    /\ pageInstructions[k].page = runPages[k]
                    /\ \E i \in hits :
                          /\ \A j \in hits : i <= j
                          /\ pageInstructions[k].instruction = instructions[i]
                    /\ Mentions(pageInstructions[k].instruction, runPages[k])

\* the second page is mentioned by the second instruction only and gets it,
\* although the first instruction is still unused
C16_Witness ==
    /\ Routed
    /\ Len(pageInstructions) = 2
    /\ Len(instructions) = 2
    /\ MentioningInstructions(runPages[2]) = {2}
    /\ pageInstructions[2].instruction = instructions[2]
    /\ pageInstructions[1].instruction # instructions[1]

\* the priority table: the tool of the page type when it is inferred, the
\* first inferred tool otherwise
PriorityTable(pageType, tools) ==
    CASE pageType = "video" /\ InSeq("video_summarizer", tools) -> "video_summarizer"
      [] pageType = "image" /\ InSeq("image_insights", tools) -> "image_insights"
      [] pageType = "code" /\ InSeq("code_assistant", tools) -> "code_assistant"
      [] pageType = "text" /\ InSeq("ai_powered_search", tools) -> "ai_powered_search"
      [] OTHER -> tools[1]

\* C17: the tool of a tier-1 assignment, and of a tier-2 assignment that the
\* keyword override leaves alone, is the one of the priority table applied to
\* the page type and the tools inferred for the assigned instruction; the
\* tool of a tier-1 assignment is one of these inferred tools.
C17_ToolFollowsPriorityTable ==
    Routed =>
        \A k \in 1..Len(pageInstructions) :
            LET e == pageInstructions[k]
                pageType == ContentTypeOf(e.page, pageTypes)
                tools == InferTools(e.instruction)
            IN  /\ e.tier = 1 =>
                       /\ e.tool = PriorityTable(pageType, tools)
                       /\ InSeq(e.tool, tools)
                /\ (e.tier = 2 /\ ~TypeKeywordMatches(pageType, e.instruction))
                       => e.tool = PriorityTable(pageType, tools)

\* a text page has got ai_powered_search in tier 1 although another tool was
\* inferred first
C17_Witness ==
    /\ Routed
    /\ \E k \in 1..Len(pageInstructions) :
          /\ pageInstructions[k].tier = 1
          /\ ContentTypeOf(pageInstructions[k].page, pageTypes) = "text"
          /\ pageInstructions[k].tool = "ai_powered_search"
          /\ InferTools(pageInstructions[k].instruction)[1] # "ai_powered_search"

\* the instructions the pages before page k have used
UsedBefore(k) ==
    {pageInstructions[j].instruction : j \in 1..(k - 1)}
        \cap {instructions[i] : i \in 1..Len(instructions)}

\* page k is mentioned by no instruction and no instruction is left unused
NothingLeftFor(k) ==
    /\ MentioningInstructions(runPages[k]) = {}
    /\ \A i \in 1..Len(instructions) : instructions[i] \in UsedBefore(k)

\* C19: a page that no instruction mentions, when every instruction is used
\* already or there is none, is assigned the first instruction, or "Analyze
\* this content" when there is none, and always ai_powered_search.
C19_AbsoluteFallback ==
    Routed =>
        \A k \in 1..Len(pageInstructions) :
            NothingLeftFor(k) =>
                /\ pageInstructions[k].page = runPages[k]
                /\ pageInstructions[k].instruction =
                       IF Len(instructions) > 0 THEN instructions[1]
                       ELSE <<"A","n","a","l","y","z","e"," ","t","h","i","s"," ",
                              "c","o","n","t","e","n","t">>
                /\ pageInstructions[k].tool = "ai_powered_search"

\* the second page falls back to the first instruction, whose first inferred
\* tool is another one
C19_Witness ==
    /\ Routed
    /\ Len(pageInstructions) = 2
    /\ Len(instructions) > 0
    /\ NothingLeftFor(2)
    /\ pageInstructions[2].instruction = instructions[1]
    /\ InferTools(instructions[1])[1] # "ai_powered_search"

----------------------------------------------------------------------------
(* The dispatch loop (specification Spec)                                  *)

\* the calls of the dispatch loop for a page, in the order they were issued
PerPageCalls(page) ==
    {i \in 1..Len(calls) : calls[i].fn \notin TwoPageTools /\ calls[i].page = page}

\* the collaborator functions the tool field identifies
CollaboratorsNamedBy(tool) ==
    CASE tool = "code_assistant"    -> {"codeAssistant"}
      [] tool = "image_insights"    -> {"getImages", "imageSummary"}
      [] tool = "video_summarizer"  -> {"videoSummarizer"}
      [] tool = "ai_powered_search" -> {"search"}
      [] tool = "impact_analyzer"   -> {"impactAnalyzer"}
      [] tool = "test_support"      -> {"testSupport"}
      [] OTHER -> {}

\* the collaborator functions the dispatch loop calls for a tool field
CollaboratorsCalledFor(tool) ==
    CASE tool = "code_assistant"    -> {"codeAssistant"}
      [] tool = "image_insights"    -> {"getImages", "imageSummary"}
      [] tool = "video_summarizer"  -> {"videoSummarizer"}
      [] OTHER -> {"search"}

\* C20 as stated: the calls the dispatch loop issues for an assignment go to
\* the collaborator its tool field names (impact_analyzer to impactAnalyzer,
\* test_support to testSupport), and after a successful run every assignment
\* has had such a call.
C20_DispatchByToolField ==
    \A k \in 1..Len(pageInstructions) :
        LET e == pageInstructions[k]
        IN  /\ \A i \in PerPageCalls(e.page) : calls[i].fn \in CollaboratorsNamedBy(e.tool)
            /\ RunSucceeded =>
                   \E i \in 1..Len(calls) :
                       /\ calls[i].fn \in CollaboratorsNamedBy(e.tool)
                       /\ e.page \in {calls[i].page, calls[i].page2}

\* C20, amended: the calls the dispatch loop issues for an assignment go to
\* codeAssistant for code_assistant, getImages and imageSummary for
\* image_insights, videoSummarizer for video_summarizer, and search with the
\* instruction as query for ai_powered_search, impact_analyzer and
\* test_support; after a successful run every assignment has had such a call.
C20_DispatchWithSearchFallback ==
    \A k \in 1..Len(pageInstructions) :
        LET e == pageInstructions[k]
        IN  /\ \A i \in PerPageCalls(e.page) :
                  /\ calls[i].fn \in CollaboratorsCalledFor(e.tool)
                  /\ calls[i].fn = "search" => calls[i].arg = e.instruction
            /\ RunSucceeded => PerPageCalls(e.page) # {}

\* a run has ended in which the pages assigned impact_analyzer and
\* test_support were sent to search
C20_Witness ==
    /\ RunSucceeded
    /\ \E k \in 1..Len(pageInstructions) :
          /\ pageInstructions[k].tool = "impact_analyzer"
          /\ \E i \in PerPageCalls(pageInstructions[k].page) : calls[i].fn = "search"
    /\ \E k \in 1..Len(pageInstructions) :
          /\ pageInstructions[k].tool = "test_support"
          /\ \E i \in PerPageCalls(pageInstructions[k].page) : calls[i].fn = "search"

\* number of standalone two-page tools the run has invoked with a result
StandaloneDone ==
    (IF impactAnalyzerResult THEN 1 ELSE 0) + (IF testStrategyResult THEN 1 ELSE 0)

\* C21: the three audit lists have equal length after every step of the
\* dispatch; each finished per-page assignment and each finished standalone
\* two-page tool has appended one element to each, so after a successful run
\* their length is the number of selected pages plus the number of
\* standalone tools invoked.
C21_AuditListsParallel ==
    /\ Len(toolsTriggered) = Len(whyUsed)
    /\ Len(whyUsed) = Len(howDerived)
    /\ Len(toolsTriggered) = Len(pageResults) + StandaloneDone
    /\ RunSucceeded =>
           Len(toolsTriggered) =
               Len(runPages)
               + Cardinality({i \in 1..Len(calls) : calls[i].fn \in TwoPageTools})

\* a run on two pages has ended with both standalone tools in the audit lists
C21_Witness ==
    /\ RunSucceeded
    /\ Len(runPages) = 2
    /\ Len(howDerived) = 4

\* the page has got its entry in pageResults
PageFinished(page) == \E r \in 1..Len(pageResults) : pageResults[r].page = page

\* position of call i among the calls of the set idx
PositionIn(idx, i) == Cardinality({j \in idx : j <= i})

\* C22: for an assignment with tool code_assistant the calls for its page are
\* codeAssistant calls: first one priming call with the empty instruction,
\* then one call per fragment of splitRelatedActions(instruction), in fragment
\* order; none is missing once the page is finished, and while the branch
\* waits only the call issued last is outstanding.
C22_PrimingThenOneCallPerAction ==
    \A k \in 1..Len(pageInstructions) :
        LET e == pageInstructions[k]
            idx == PerPageCalls(e.page)
            relatedActions == splitRelatedActions(e.instruction)
        IN  e.tool = "code_assistant" =>
                /\ Cardinality(idx) <= 1 + Len(relatedActions)
                /\ \A i \in idx :
                      /\ calls[i].fn = "codeAssistant"
                      /\ calls[i].arg = IF PositionIn(idx, i) = 1 THEN <<>>
                                        ELSE relatedActions[PositionIn(idx, i) - 1]
                /\ PageFinished(e.page) => Cardinality(idx) = 1 + Len(relatedActions)
                /\ (k = pageIdx /\ pc \in {"codeAssistant_initial", "codeAssistant_action"})
                       => /\ Len(calls) \in idx
                          /\ pending = {calls[Len(calls)]}
                          /\ (pc = "codeAssistant_initial") = (Cardinality(idx) = 1)

\* the action call of a code page is outstanding, after its priming call resolved
C22_Witness ==
    /\ pc = "codeAssistant_action"
    /\ \E c \in pending : c.fn = "codeAssistant" /\ c.arg # <<>>
    /\ Cardinality(PerPageCalls(pageInstructions[pageIdx].page)) = 2

\* the run has ended and its plan steps are still shown
RunEndedPlanShown == runs > 0 /\ ~isPlanning /\ Len(planSteps) > 0

\* C28: when a run has ended progressPercent is 100; both plan steps are
\* "completed" exactly when the run succeeded, and after a failed run step 1
\* is still "running" and step 2 still "pending".
C28_ProgressAndStepsAtRunEnd ==
    /\ (runs > 0 /\ ~isPlanning) => pc = "idle"
    /\ RunEndedPlanShown =>
           /\ progressPercent = 100
           /\ (planSteps = <<"completed", "completed">>) = ~runFailed
           /\ runFailed => planSteps = <<"running", "pending">>

\* a run has failed: the progress bar is full and no step is completed
C28_Witness ==
    /\ RunEndedPlanShown
    /\ runFailed
    /\ progressPercent = 100
    /\ planSteps = <<"running", "pending">>

----------------------------------------------------------------------------
(* Termination of a run (specification SpecLive): every collaborator call  *)
(* the handler awaits is settled eventually, by a result or by a rejection. *)

\* the promise the handler is suspended at settles
CollaboratorSettles ==
    \/ ResolveCodeInitial
    \/ ResolveCodeAction
    \/ ResolveGetImages
    \/ ResolveImageSummary
    \/ ResolveSearch
    \/ ResolveVideoSummarizer
    \/ ResolveSearchFallback
    \/ ResolveImpactAnalyzer
    \/ ResolveTestSupport
    \/ RejectCall

\* the selections the runs of this specification work on
LiveSelections == {<<AuthPy, Clip>>, <<Pic>>, <<ApiDocs>>}

InitLive ==
    /\ goal = <<>>
    /\ selectedSpace \in Spaces
    /\ selectedPages \in LiveSelections
    /\ pageTypes \in PageTypeStates
    /\ Constructed
    /\ Mounted

SpecLive == InitLive /\ [][Next]_vars /\ WF_vars(CollaboratorSettles)

\* what the user is shown when a run has ended
SuccessShown == Len(outputTabs) > 0 /\ error = ""
FailureShown == error # "" /\ Len(outputTabs) = 0

\* C23: when every collaborator call settles, a run that has started ends:
\* isPlanning returns to false, and at that point either the output tabs are
\* set and error is empty, or error is set and the output tabs are empty.
C23_RunEndsWithTabsOrError ==
    /\ isPlanning ~> ~isPlanning
    /\ [][ (isPlanning /\ ~isPlanning') => (SuccessShown' \/ FailureShown') ]_vars

\* a first run has succeeded and a second one has failed
C23_Witness ==
    /\ runs = 2
    /\ ~isPlanning
    /\ FailureShown
    /\ Len(history) = 1

----------------------------------------------------------------------------
(* The planning part with page types that are unknown: the fetch of the    *)
(* page types has failed (pageTypes is empty) or its answer lacks a page.  *)

InitRouteTypes ==
    /\ goal \in RouteGoals
    /\ selectedSpace \in Spaces
    /\ selectedPages \in RouteSelections
    /\ pageTypes \in {<<>>, CatalogB}
    /\ Constructed
    /\ Mounted

SpecRouteTypes == InitRouteTypes /\ [][NextRoute]_vars

\* the page is absent from the list of page types
TypeUnknown(page) == \A k \in 1..Len(pageTypes) : pageTypes[k].title # page

\* the tools inferred for an instruction of the run
ToolsInferredFor(instruction) ==
    instructionTools[CHOOSE i \in 1..Len(instructionTools) :
                         instructionTools[i].instruction = instruction].tools

\* C25: a selected page whose content type is unknown is routed as a text
\* page: it gets the tool of the priority table for "text", no keyword
\* override, and ai_powered_search in the absolute fallback; the run gets
\* one assignment per selected page whatever types are unknown.
C25_UnknownTypeRoutedAsText ==
    Routed =>
        /\ Len(pageInstructions) = Len(runPages)
        /\ \A k \in 1..Len(pageInstructions) :
              LET e == pageInstructions[k]
              IN  (e.page = runPages[k] /\ TypeUnknown(e.page)) =>
                      e.tool = IF e.tier = 4 THEN "ai_powered_search"
                               ELSE PriorityTable("text", ToolsInferredFor(e.instruction))

\* the fetch of the page types has failed, and a page has got
\* ai_powered_search although another tool was inferred first
C25_Witness ==
    /\ Routed
    /\ pageTypes = <<>>
    /\ \E k \in 1..Len(pageInstructions) :
          /\ pageInstructions[k].tier \in {1, 2}
          /\ pageInstructions[k].tool = "ai_powered_search"
          /\ ToolsInferredFor(pageInstructions[k].instruction)[1] # "ai_powered_search"

\* C26: tier 3 never produces an assignment: every assignment comes from
\* tier 1, tier 2 or the absolute fallback, and a page reaches the absolute
\* fallback only when every instruction is used already.
C26_Tier3NeverAssigns ==
    Routed =>
        \A k \in 1..Len(pageInstructions) :
            /\ pageInstructions[k].tier \in {1, 2, 4}
            /\ pageInstructions[k].tier = 4 =>
                   \A i \in 1..Len(instructions) : instructions[i] \in UsedBefore(k)

\* a page has passed tier 2 and tier 3 without an assignment although the
\* goal has instructions
C26_Witness ==
    /\ Routed
    /\ Len(instructions) = 2
    /\ Len(pageInstructions) = 2
    /\ pageInstructions[2].tier = 4

-----------------------------------------------------------------------------
(* The history of a session: the handlers that read the history list, and  *)
(* a specification in which they interleave with runs.                     *)

\* the "Previous Instructions" section is rendered
HistoryShown == Len(history) > 0 /\ Len(planSteps) = 0 /\ ~isPlanning

\* the actions row under the results is rendered (isExecuting is never set)
ActionsShown ==
    (Len(planSteps) > 0 /\ ~isPlanning) \/ (currentHistoryId # 0 /\ Len(outputTabs) > 0)

\* a "Back to New Instruction" button is rendered (history panel or actions row)
BackToNewShown ==
    currentHistoryId # 0 /\ (Len(planSteps) > 0 \/ Len(outputTabs) > 0)

\* a "Go to Latest" button is rendered (history section, banner, panel or actions row)
GoToLatestShown ==
    \/ HistoryShown
    \/ (currentHistoryId # 0 /\ Len(planSteps) = 0)
    \/ BackToNewShown

\* the requests the effects start when the selected space changes to a new value
SpaceEffects(space) ==
    IF space = "" THEN <<>>
    ELSE <<[fn |-> "getPages", space |-> space],
           [fn |-> "getPagesWithType", space |-> space]>>

\* a plausible slip: loading an entry moves it to the front of the list
loadHistoryEntry_MovesToFront(historyId) ==
    \E k \in 1..Len(history) :
      /\ history[k].id = historyId
      /\ \A j \in 1..(k - 1) : history[j].id # historyId
      /\ outputTabs' = history[k].outputTabs
      /\ selectedSpace' = history[k].selectedSpace
      /\ selectedPages' = history[k].selectedPages
      /\ goal' = history[k].goal
      /\ currentHistoryId' = historyId
      /\ planSteps' = <<>>
      /\ progressPercent' = 100
      /\ selectAllPages' = SelectAllSync(selectedPages', pages)
      /\ loads' = IF selectedSpace' # selectedSpace
                  THEN loads \o SpaceEffects(selectedSpace') ELSE loads
      /\ history' = <<history[k]>> \o [j \in 1..(Len(history) - 1) |->
                                         IF j < k THEN history[j] ELSE history[j + 1]]
      /\ UNCHANGED <<pageTypes, isPlanning, error, showHistory, spaces, pages,
                     voiceVars, runVars>>

\* loadHistoryEntry(historyId): the entry found by its id is shown again
loadHistoryEntry(historyId) ==
    \E k \in 1..Len(history) :
      /\ history[k].id = historyId
      /\ \A j \in 1..(k - 1) : history[j].id # historyId
      /\ outputTabs' = history[k].outputTabs
      /\ selectedSpace' = history[k].selectedSpace
      /\ selectedPages' = history[k].selectedPages
      /\ goal' = history[k].goal
      /\ currentHistoryId' = historyId
      /\ planSteps' = <<>>
      /\ progressPercent' = 100
      /\ selectAllPages' = SelectAllSync(selectedPages', pages)
      /\ loads' = IF selectedSpace' # selectedSpace
                  THEN loads \o SpaceEffects(selectedSpace') ELSE loads
      /\ UNCHANGED <<pageTypes, isPlanning, error, history, showHistory, spaces, pages,
                     voiceVars, runVars>>

\* a click on an entry of the history list, which is rendered when showHistory is set
ClickHistoryEntry ==
    /\ HistoryShown
    /\ showHistory
    /\ \E k \in 1..Len(history) : loadHistoryEntry(history[k].id)

\* goToLatest: the newest entry is loaded, if there is one
goToLatest ==
    /\ GoToLatestShown
    /\ IF Len(history) > 0 THEN loadHistoryEntry(history[1].id) ELSE UNCHANGED vars

\* toggleHistory: the list is shown or hidden
toggleHistory ==
    /\ HistoryShown
    /\ showHistory' = ~showHistory
    /\ UNCHANGED <<goal, selectedSpace, selectedPages, pageTypes, isPlanning, error,
                   planSteps, outputTabs, history, progressPercent, currentHistoryId,
                   selectVars, voiceVars, runVars>>

\* the inline handler of "Back to New Instruction"
BackToNewInstruction ==
    /\ BackToNewShown
    /\ currentHistoryId' = 0
    /\ outputTabs' = <<>>
    /\ goal' = <<>>
    /\ UNCHANGED <<selectedSpace, selectedPages, pageTypes, isPlanning, error, planSteps,
                   history, progressPercent, showHistory, selectVars, voiceVars, runVars>>

\* the goal textarea's onChange during a session: a blank goal and two valid ones
TypeGoal ==
    /\ GoalInputShown
    /\ \E g \in { <<" "," ">>, <<"f","i","x">>, ExampleGoal } :
         /\ g # goal
         /\ goal' = g
    /\ UNCHANGED <<selectedSpace, selectedPages, pageTypes, isPlanning, error, planSteps,
                   outputTabs, history, progressPercent, currentHistoryId, showHistory,
                   selectVars, voiceVars, runVars>>

\* a session on one text page of the only space
InitSession ==
    /\ goal = <<>>
    /\ selectedSpace = "DOCS"
    /\ selectedPages = <<ApiDocs>>
    /\ pageTypes = CatalogA
    /\ Constructed
    /\ Mounted

NextSession ==
    \/ TypeGoal
    \/ HandleGoalSubmit
    \/ ResolveSearch
    \/ RejectCall
    \/ backToChat
    \/ ClickHistoryEntry
    \/ goToLatest
    \/ toggleHistory
    \/ BackToNewInstruction

SpecSession == InitSession /\ [][NextSession]_vars

\* a step that ends a run with success
RunSucceeds == isPlanning /\ ~isPlanning' /\ ~runFailed'

\* C24: the history list changes only when a run succeeds, and then by one entry
\* put in front of the unchanged older entries, holding the run's goal, the output
\* tabs shown, the space and the pages; every other step (a validation failure, a
\* failed run, loadHistoryEntry, goToLatest, toggleHistory, backToChat) leaves the
\* list exactly as it was.
C24_HistoryAppendOnly ==
    [][ /\ RunSucceeds =>
              /\ Len(history') = Len(history) + 1
              /\ SubSeq(history', 2, Len(history')) = history
              /\ history'[1].goal = runGoal
              /\ history'[1].outputTabs = outputTabs'
              /\ history'[1].selectedSpace = runSpace
              /\ history'[1].selectedPages = runPages
        /\ ~RunSucceeds => history' = history ]_vars

\* two successful runs are recorded, and the older entry has been loaded again while
\* the list is shown
C24_Witness ==
    /\ Len(history) = 2
    /\ history[1].goal # history[2].goal
    /\ currentHistoryId = history[2].id
    /\ showHistory
    /\ outputTabs = history[2].outputTabs

\* the controls that can start or replace a run: the goal input with its submit
\* button, the selectors (same guard) and the history section
StartControlsOffered == GoalInputShown \/ HistoryShown

\* C27 as stated: while isPlanning is true or plan steps are shown, neither the goal
\* input, the selectors, the history list nor the Back-to-Chat/Export actions are
\* offered.
C27_NothingOfferedWhilePlanShown ==
    (isPlanning \/ Len(planSteps) > 0) => (~StartControlsOffered /\ ~ActionsShown)

\* what holds in every state for C27
RunExcludesControls ==
    /\ isPlanning => (~StartControlsOffered /\ ~ActionsShown /\ Len(planSteps) > 0)
    /\ Len(planSteps) > 0 => ~StartControlsOffered
    /\ (Len(planSteps) > 0 /\ ~isPlanning) => (ActionsShown /\ pc = "idle")
    /\ (pc # "idle") = isPlanning

\* C27: while isPlanning is true none of the controls is offered; while plan steps
\* are shown the goal input, the selectors and the history list are not offered, but
\* once the run has ended (isPlanning false) the Back-to-Chat/Export actions are; and
\* a run starts only when no run is in progress.
C27_OneRunAtATime ==
    /\ RunExcludesControls
    /\ [][ /\ RunExcludesControls'
           /\ runs' # runs => (~isPlanning /\ pc = "idle" /\ isPlanning') ]_vars

\* a second run is in progress while the first one is in the history
C27_Witness ==
    /\ isPlanning
    /\ runs = 2
    /\ Len(history) = 1
    /\ pc = "search"
    /\ Len(planSteps) = 2

-----------------------------------------------------------------------------
(* Space and page selection: the mount effect, the loadPages and            *)
(* fetchPageTypes effects, the checkboxes and the history, in a workspace   *)
(* of two spaces.                                                          *)

MaxLoads == 3   \* most requests of the effects in flight at once

\* the page list apiService.getPages answers for a space
PagesOf(space) == IF space = "DOCS" THEN <<ApiDocs, AuthPy>> ELSE <<Pic>>

\* loadSpacesAndPages: getSpaces settles (two spaces and no space in the URL: nothing
\* is selected for the user); a rejection sets the error
SettleGetSpaces ==
    /\ Len(loads) > 0
    /\ loads[1].fn = "getSpaces"
    /\ loads' = Tail(loads)
    /\ \/ /\ spaces' = <<"DOCS", "MEDIA">>
          /\ UNCHANGED error
       \/ /\ error' = "Failed to auto-detect Confluence space and page."
          /\ UNCHANGED spaces
    /\ UNCHANGED <<goal, selectedSpace, selectedPages, pageTypes, isPlanning, planSteps,
                   outputTabs, history, progressPercent, currentHistoryId, showHistory,
                   pages, selectAllPages, voiceVars, runVars>>

\* the space select's onChange, and the two effects that depend on selectedSpace
SelectSpace ==
    /\ GoalInputShown
    /\ \E space \in Range(spaces) \cup {""} :
         /\ space # selectedSpace
         /\ Len(loads) + Len(SpaceEffects(space)) <= MaxLoads
         /\ selectedSpace' = space
         /\ loads' = loads \o SpaceEffects(space)
    /\ UNCHANGED <<goal, selectedPages, pageTypes, isPlanning, error, planSteps,
                   outputTabs, history, progressPercent, currentHistoryId, showHistory,
                   spaces, pages, selectAllPages, voiceVars, runVars>>

\* loadPages: a getPages request settles. The answer replaces the page list; the page
\* named in the URL, or else the only page, becomes the selection; a change of
\* pages.length runs fetchPageTypes again for the space selected by then; the
\* select-all effect follows. A rejection sets the error.
SettleGetPages ==
    \E k \in 1..Len(loads) :
      /\ loads[k].fn = "getPages"
      /\ \/ \E urlPage \in {<<>>, AuthPy} :
              LET result  == PagesOf(loads[k].space)
                  rest    == SubSeq(loads, 1, k - 1) \o SubSeq(loads, k + 1, Len(loads))
                  refetch == IF Len(result) # Len(pages) /\ selectedSpace # ""
                             THEN <<[fn |-> "getPagesWithType", space |-> selectedSpace]>>
                             ELSE <<>>
              IN  /\ pages' = result
                  /\ selectedPages' =
                        IF Len(urlPage) > 0 /\ urlPage \in Range(result) THEN <<urlPage>>
                        ELSE IF Len(result) = 1 THEN <<result[1]>>
                        ELSE selectedPages
                  /\ selectAllPages' = SelectAllSync(selectedPages', pages')
                  /\ loads' = rest \o refetch
                  /\ UNCHANGED error
         \/ /\ error' = "Failed to load pages."
            /\ loads' = SubSeq(loads, 1, k - 1) \o SubSeq(loads, k + 1, Len(loads))
            /\ UNCHANGED <<pages, selectedPages, selectAllPages>>
      /\ UNCHANGED <<goal, selectedSpace, pageTypes, isPlanning, planSteps, outputTabs,
                     history, progressPercent, currentHistoryId, showHistory, spaces,
                     voiceVars, runVars>>

\* fetchPageTypes: a getPagesWithType request settles; a rejection empties the list
SettlePageTypes ==
    \E k \in 1..Len(loads) :
      /\ loads[k].fn = "getPagesWithType"
      /\ loads' = SubSeq(loads, 1, k - 1) \o SubSeq(loads, k + 1, Len(loads))
      /\ \/ pageTypes' = SelectSeq(CatalogA,
                                   LAMBDA t : t.title \in Range(PagesOf(loads[k].space)))
         \/ pageTypes' = <<>>
      /\ UNCHANGED <<goal, selectedSpace, selectedPages, isPlanning, error, planSteps,
                     outputTabs, history, progressPercent, currentHistoryId, showHistory,
                     spaces, pages, selectAllPages, voiceVars, runVars>>

\* a page checkbox's onChange, followed by the select-all effect
TogglePage ==
    /\ GoalInputShown
    /\ \E k \in 1..Len(pages) :
         selectedPages' =
            IF pages[k] \in Range(selectedPages)
            THEN SelectSeq(selectedPages, LAMBDA p : p # pages[k])
            ELSE Append(selectedPages, pages[k])
    /\ selectAllPages' = SelectAllSync(selectedPages', pages)
    /\ UNCHANGED <<goal, selectedSpace, pageTypes, isPlanning, error, planSteps,
                   outputTabs, history, progressPercent, currentHistoryId, showHistory,
                   spaces, pages, loads, voiceVars, runVars>>

\* toggleSelectAllPages, followed by the select-all effect (which overrides the
\* negated flag the handler sets)
toggleSelectAllPages ==
    /\ GoalInputShown
    /\ selectedPages' = IF selectAllPages THEN <<>> ELSE pages
    /\ selectAllPages' = SelectAllSync(selectedPages', pages)
    /\ UNCHANGED <<goal, selectedSpace, pageTypes, isPlanning, error, planSteps,
                   outputTabs, history, progressPercent, currentHistoryId, showHistory,
                   spaces, pages, loads, voiceVars, runVars>>

\* the component after construction: nothing loaded, getSpaces in flight
InitSelect ==
    /\ goal = <<>>
    /\ selectedSpace = ""
    /\ selectedPages = <<>>
    /\ pageTypes = <<>>
    /\ Constructed
    /\ spaces = <<>>
    /\ pages = <<>>
    /\ selectAllPages = FALSE
    /\ loads = <<[fn |-> "getSpaces", space |-> ""]>>
    /\ recognition = "inactive"

NextSelect ==
    \/ SettleGetSpaces
    \/ SelectSpace
    \/ SettleGetPages
    \/ SettlePageTypes
    \/ TogglePage
    \/ toggleSelectAllPages

SpecSelect == InitSelect /\ [][NextSelect]_vars

\* no request of the effects is in flight
LoadsSettled == loads = <<>>

\* every page of the loaded list is selected
EveryLoadedPageSelected == \A k \in 1..Len(pages) : pages[k] \in Range(selectedPages)

\* C29 as stated: once the loads have settled, every selected page is in the page
\* list loaded for the selected space, and (for a list that is not empty)
\* selectAllPages is true exactly when every loaded page is selected.
C29_SelectionWithinLoadedPages ==
    LoadsSettled =>
        /\ Range(selectedPages) \subseteq Range(pages)
        /\ Len(pages) > 0 => (selectAllPages = EveryLoadedPageSelected)

-----------------------------------------------------------------------------
(* VoiceRecorder, as AgentMode embeds it (onConfirm = setGoal, no value and *)
(* no onChange prop). The SpeechRecognition object is "inactive" until      *)
(* start(), "listening" until a result or an error, then "finishing" until  *)
(* its end event; "unsupported" stands for a browser without the API.      *)

MaxConfirms == 2   \* most calls of onConfirm in one behaviour

\* JavaScript truthiness of string | null: neither null nor the empty string
Truthy(t) == Len(t) = 1 /\ Len(t[1]) > 0

\* handleMicClick: the error and the pending transcript are cleared; without the API
\* the error is set; otherwise isListening is set and start() is called, which starts
\* an inactive recogniser and throws (after the state updates) on a started one
handleMicClick ==
    /\ pendingTranscript' = <<>>
    /\ IF recognition = "unsupported"
       THEN /\ speechError' = "Speech recognition is not supported in this browser."
            /\ UNCHANGED <<isListening, recognition>>
       ELSE /\ speechError' = ""
            /\ isListening' = TRUE
            /\ recognition' = IF recognition = "inactive" THEN "listening" ELSE recognition

\* a click on the mic button, rendered beside the input and disabled while listening
ClickMic ==
    /\ GoalInputShown
    /\ ~Truthy(pendingTranscript)
    /\ ~isListening
    /\ handleMicClick
    /\ UNCHANGED <<goal, selectedSpace, selectedPages, pageTypes, isPlanning, error,
                   planSteps, outputTabs, history, progressPercent, currentHistoryId,
                   showHistory, selectVars, transcript, confirmed, runVars>>

\* a plausible slip: the result handler leaves isListening set
OnResult_KeepsListening ==
    /\ recognition = "listening"
    /\ \E t \in { <<>>, <<"f","i","x">>, ExampleGoal } :
         pendingTranscript' = <<t>>
    /\ recognition' = "finishing"
    /\ UNCHANGED <<goal, selectedSpace, selectedPages, pageTypes, isPlanning, error,
                   planSteps, outputTabs, history, progressPercent, currentHistoryId,
                   showHistory, selectVars, isListening, transcript, speechError,
                   confirmed, runVars>>

\* recognition.onresult: the transcript recognised (possibly empty) becomes pending
OnResult ==
    /\ recognition = "listening"
    /\ \E t \in { <<>>, <<"f","i","x">>, ExampleGoal } :
         pendingTranscript' = <<t>>
    /\ isListening' = FALSE
    /\ recognition' = "finishing"
    /\ UNCHANGED <<goal, selectedSpace, selectedPages, pageTypes, isPlanning, error,
                   planSteps, outputTabs, history, progressPercent, currentHistoryId,
                   showHistory, selectVars, transcript, speechError, confirmed, runVars>>

\* recognition.onerror: listening stops, nothing is pending, the message of the
\* error code is shown
OnError ==
    /\ recognition = "listening"
    /\ isListening' = FALSE
    /\ pendingTranscript' = <<>>
    /\ \E code \in {"not-allowed", "no-speech", "audio-capture", "network", "aborted",
                    "service-not-allowed"} :
         speechError' =
            CASE code = "not-allowed" ->
                   "Microphone access denied. Please allow mic access in your browser settings."
              [] code = "no-speech" -> "No speech detected. Please try again."
              [] code = "audio-capture" -> "No microphone found. Please connect a mic."
              [] code = "network" -> "Network error. Please check your connection."
              [] code = "aborted" -> "Speech recognition aborted. Please try again."
              [] OTHER ->
                   "Speech recognition error. Please check your browser and permissions."
    /\ recognition' = "finishing"
    /\ UNCHANGED <<goal, selectedSpace, selectedPages, pageTypes, isPlanning, error,
                   planSteps, outputTabs, history, progressPercent, currentHistoryId,
                   showHistory, selectVars, transcript, confirmed, runVars>>

\* recognition.onend: the session of the recogniser is over
OnEnd ==
    /\ recognition \in {"listening", "finishing"}
    /\ isListening' = FALSE
    /\ recognition' = "inactive"
    /\ UNCHANGED <<goal, selectedSpace, selectedPages, pageTypes, isPlanning, error,
                   planSteps, outputTabs, history, progressPercent, currentHistoryId,
                   showHistory, selectVars, transcript, pendingTranscript, speechError,
                   confirmed, runVars>>

\* handleConfirm(confirmed) behind the Yes and No buttons, which are rendered while
\* the pending transcript is truthy: Yes hands it to onConfirm (setGoal), No clears
\* it and calls handleMicClick
handleConfirm(yes) ==
    /\ GoalInputShown
    /\ Truthy(pendingTranscript)
    /\ IF yes /\ Truthy(pendingTranscript)
       THEN /\ Len(confirmed) < MaxConfirms
            /\ transcript' = pendingTranscript[1]
            /\ pendingTranscript' = <<>>
            /\ confirmed' = Append(confirmed, pendingTranscript[1])
            /\ goal' = pendingTranscript[1]
            /\ UNCHANGED <<isListening, speechError, recognition>>
       ELSE /\ handleMicClick
            /\ UNCHANGED <<goal, transcript, confirmed>>
    /\ UNCHANGED <<selectedSpace, selectedPages, pageTypes, isPlanning, error,
                   planSteps, outputTabs, history, progressPercent, currentHistoryId,
                   showHistory, selectVars, runVars>>

\* the text input's onChange (rendered when nothing is pending, disabled while
\* listening): without an onChange prop the typed text goes to onConfirm
TypeTranscript ==
    /\ GoalInputShown
    /\ ~Truthy(pendingTranscript)
    /\ ~isListening
    /\ Len(confirmed) < MaxConfirms
    /\ \E typed \in { <<>>, <<"f">>, <<"f","i">> } :
         /\ typed # transcript
         /\ transcript' = typed
         /\ confirmed' = Append(confirmed, typed)
         /\ goal' = typed
    /\ UNCHANGED <<selectedSpace, selectedPages, pageTypes, isPlanning, error,
                   planSteps, outputTabs, history, progressPercent, currentHistoryId,
                   showHistory, selectVars, isListening, pendingTranscript, speechError,
                   recognition, runVars>>

\* the goal input section after mounting, in a browser with or without the API
InitVoice ==
    /\ goal = <<>>
    /\ selectedSpace = "DOCS"
    /\ selectedPages = <<ApiDocs>>
    /\ pageTypes = CatalogA
    /\ Constructed
    /\ spaces = <<"DOCS">>
    /\ pages = <<ApiDocs, AuthPy, Pic, Clip>>
    /\ selectAllPages = FALSE
    /\ loads = <<>>
    /\ recognition \in {"inactive", "unsupported"}

NextVoice ==
    \/ ClickMic
    \/ OnResult
    \/ OnError
    \/ OnEnd
    \/ handleConfirm(TRUE)
    \/ handleConfirm(FALSE)
    \/ TypeTranscript

SpecVoice == InitVoice /\ [][NextVoice]_vars

\* a transcript awaits confirmation while the component is listening
PendingWhileListening == Truthy(pendingTranscript) /\ isListening

\* a step in which the Yes button hands the pending transcript to onConfirm
ConfirmsPending ==
    /\ Truthy(pendingTranscript)
    /\ confirmed' = Append(confirmed, pendingTranscript[1])
    /\ goal' = pendingTranscript[1]
    /\ transcript' = pendingTranscript[1]
    /\ pendingTranscript' = <<>>
    /\ isListening' = isListening

\* a step in which typed text is handed to onConfirm
ConfirmsTyped ==
    /\ ~Truthy(pendingTranscript)
    /\ ~isListening
    /\ pendingTranscript' = pendingTranscript
    /\ confirmed' = Append(confirmed, transcript')
    /\ transcript' # transcript

\* a step in which a pending transcript goes away without a call of onConfirm
RejectsPending ==
    /\ Truthy(pendingTranscript)
    /\ pendingTranscript' # pendingTranscript
    /\ confirmed' = confirmed

====
